---- MODULE Spec2Model ----
(***************************************************************************)
(* A model of the AIEmpires AI service core:                               *)
(*   - LLMProvider.generate_with_retry   (providers/base.py)               *)
(*   - FactionAgent._parse_decision      (agents/faction_agent.py)         *)
(*   - FactionAgent.make_decision        (agents/faction_agent.py)         *)
(*   - DecisionResponse validation       (models.py)                       *)
(*   - create_provider, detect_local_providers (providers/factory.py)      *)
(*   - validate_connection, get_available_models, generate of the five     *)
(*     provider classes                  (providers/*_provider.py)         *)
(*   - make_batch_decisions              (main.py)                         *)
(*   - make_decision, the handler of /decide (main.py)                     *)
(*   - calls of make_decision and generate_with_retry in flight together   *)
(*   - FactionAgent._build_context       (agents/faction_agent.py)         *)
(*   - AIEmpiresLogger and its log files (ai-service/utils/logger.py)      *)
(*   - set_log_level                     (ai-service/main.py)              *)
(*                                                                         *)
(* Text is modelled as a sequence of lexical tokens.  A token, and a       *)
(* decoded JSON value, is a record [k, s, n]: k is the kind, s the string  *)
(* payload (for kind "str"), n the numeric payload (for kind "int" the     *)
(* integer, for kind "float" the value in tenths, so 85 is 8.5).           *)
(***************************************************************************)
EXTENDS Integers, Sequences, FiniteSets, TLC

VARIABLES
    \* ---- generate_with_retry (providers/base.py) ----
    retry_attempts,   \* config.retry_attempts
    rpc,              \* position in generate_with_retry
    attempt,          \* the loop variable of the for loop
    last_error,       \* last_error
    genCalls,         \* number of calls made to self.generate
    slept,            \* the arguments of the time.sleep calls, in order
    outcomes,         \* what each generate call did, in order
    rresult,          \* the value returned by generate_with_retry
    rraised,          \* an exception left generate_with_retry
    \* ---- _parse_decision (agents/faction_agent.py) ----
    response_text,    \* the argument of _parse_decision
    given,            \* how response_text was built (history variable)
    ppc,              \* position in _parse_decision
    presult,          \* the DecisionResponse returned
    praised,          \* the exception that left _parse_decision
    \* ---- make_decision (agents/faction_agent.py) ----
    dpc,              \* position in make_decision
    personaOk,        \* the faction config renders into a system prompt
    reply,            \* what client.messages.create gave
    dgenCalls,        \* number of calls made to client.messages.create
    caught,           \* the exception caught by make_decision's handler
    failedAt,         \* the step of make_decision that raised it
    responses,        \* the DecisionResponses returned to the caller
    draised,          \* an exception left make_decision
    \* ---- create_provider and the provider operations (providers/) ----
    config,           \* the ProviderConfig object passed to create_provider
    given_config,     \* config as the caller built it (history variable)
    fpc,              \* position in create_provider
    provider,         \* the provider create_provider returned
    ferror,           \* the exception that left create_provider
    vprobe,           \* what the probe of validate_connection met
    vresult,          \* what validate_connection did
    mlisting,         \* what the listing of get_available_models met
    mresult,          \* what get_available_models did
    gvendor,          \* what the vendor answered to generate
    gtimes,           \* how long the phases of that generate took (history variable)
    gresult,          \* what generate did
    \* ---- detect_local_providers (providers/factory.py) ----
    detpc,            \* position in detect_local_providers
    probes,           \* what the two local endpoints answer
    probed,           \* the endpoints requested so far, in order
    available,        \* the dictionary available
    detresult,        \* what detect_local_providers did
    \* ---- make_batch_decisions (main.py) ----
    bpc,              \* position in make_batch_decisions
    batch,            \* the requests of the batch, with what the client answers
    decisions,        \* the list decisions
    bcalls,           \* the requests make_decision was called for, in order
    bresponse,        \* the HTTP response of the handler
    \* ---- concurrent calls (agents/faction_agent.py, providers/base.py) ----
    calls,            \* the local state of each call in flight
    delivered,        \* the replies the client gave, in order (history variable)
    \* ---- _build_context (agents/faction_agent.py) ----
    request,          \* the DecisionRequest: its neighbors and recentEvents
    ctxpc,            \* position in _build_context
    context,          \* the context built: its neighbor lines and event lines
    \* ---- the /decide route (main.py) ----
    hpc,              \* position in the handler of /decide
    hrequest,         \* the payload posted, with what the client answers
    hcalls,           \* number of calls made to agent.make_decision
    hresponse,        \* the HTTP response of the handler
    \* ---- log files of AIEmpiresLogger (utils/logger.py) ----
    lpc,              \* whether a service process (a logging session) runs
    now,              \* the clock, in seconds
    log_dir,          \* the aiempires-*.log files of log_dir: name and mtime
    current_log_file, \* the name of the file of the session
    \* ---- AIEmpiresLogger and /api/logs/level (utils/logger.py, main.py) ----
    enabled,          \* self._enabled
    level,            \* self._level
    written,          \* the entries output so far (history variable)
    lastcall,         \* the last call of the logger, and whether it output
    lresponse         \* what set_log_level returned

retryVars == <<retry_attempts, rpc, attempt, last_error, genCalls, slept,
               outcomes, rresult, rraised>>
parseVars == <<response_text, given, ppc, presult, praised>>
decideVars == <<dpc, personaOk, reply, dgenCalls, caught, failedAt, responses,
                draised>>
providerVars == <<config, given_config, fpc, provider, ferror, vprobe, vresult,
                  mlisting, mresult, gvendor, gtimes, gresult>>
detectVars == <<detpc, probes, probed, available, detresult>>
batchVars == <<bpc, batch, decisions, bcalls, bresponse>>
concVars == <<calls, delivered>>
contextVars == <<request, ctxpc, context>>
routeVars == <<hpc, hrequest, hcalls, hresponse>>
rotationVars == <<lpc, now, log_dir, current_log_file>>
loggerVars == <<enabled, level, written, lastcall, lresponse>>
serviceVars == <<concVars, contextVars, routeVars, rotationVars, loggerVars>>
vars == <<retryVars, parseVars, decideVars, providerVars, detectVars, batchVars,
          serviceVars>>

(***************************************************************************)
(* Bounds of the model.                                                    *)
(***************************************************************************)
MaxRetry == 4        \* retry_attempts ranges over 0..MaxRetry
MaxComment == 1      \* tokens of commentary before and after the JSON text

Null == "<null>"     \* Python's None where a string is expected

(***************************************************************************)
(* Tokens and JSON values.                                                 *)
(***************************************************************************)
Tok(k, s, n) == [k |-> k, s |-> s, n |-> n]
LB == Tok("lbrace", "", 0)
RB == Tok("rbrace", "", 0)
COLON == Tok("colon", "", 0)
COMMA == Tok("comma", "", 0)
WS == Tok("space", "", 0)
WORD == Tok("word", "", 0)
JStr(s) == Tok("str", s, 0)
JInt(n) == Tok("int", "", n)
JFloat(tenths) == Tok("float", "", tenths)
JTrue == Tok("true", "", 0)
JFalse == Tok("false", "", 0)
JNull == Tok("null", "", 0)
JObj == Tok("obj", "", 0)
Absent == Tok("absent", "", 0)

ScalarKinds == {"str", "int", "float", "true", "false", "null"}

(***************************************************************************)
(* DecisionResponse (models.py): the pydantic model.  Constructing it      *)
(* validates each field against its annotation, coercing where pydantic's  *)
(* lax mode does, and raises ValidationError otherwise.                    *)
(***************************************************************************)
\* Strings that are numerals, with the integer they denote.
Numerals == {<<"8", 8>>, <<"11", 11>>}
IsNumeral(s) == \E p \in Numerals : p[1] = s
NumeralValue(s) == (CHOOSE p \in Numerals : p[1] = s)[2]

\* action: str and reasoning: str
ValidStr(v) == v.k = "str"

\* target: Optional[str] = None
ValidOptStr(v) == v.k \in {"str", "null"}

\* priority: int
ValidInt(v) ==
    \/ v.k \in {"int", "true", "false"}
    \/ v.k = "float" /\ v.n % 10 = 0
    \/ v.k = "str" /\ IsNumeral(v.s)

IntOf(v) ==
    CASE v.k = "int" -> v.n
      [] v.k = "true" -> 1
      [] v.k = "false" -> 0
      [] v.k = "float" -> v.n \div 10
      [] v.k = "str" -> NumeralValue(v.s)

NoDecision == [action |-> Null, priority |-> 0, target |-> <<>>, reasoning |-> Null]

\* The outcome of DecisionResponse(action=a, priority=p, target=t, reasoning=r):
\* the validated model, or ValidationError.
DecisionResponse(a, p, t, r) ==
    IF ValidStr(a) /\ ValidInt(p) /\ ValidOptStr(t) /\ ValidStr(r)
    THEN [raised |-> "none",
          decision |-> [action |-> a.s,
                        priority |-> IntOf(p),
                        target |-> IF t.k = "null" THEN <<>> ELSE <<t.s>>,
                        reasoning |-> r.s]]
    ELSE [raised |-> "ValidationError", decision |-> NoDecision]

(***************************************************************************)
(* str.strip, str.find, str.rfind and slicing, with Python's 0-based       *)
(* indices (find gives -1 when there is no occurrence).                    *)
(***************************************************************************)
RECURSIVE LStrip(_)
LStrip(text) ==
    IF text # <<>> /\ Head(text).k = "space" THEN LStrip(Tail(text)) ELSE text

RECURSIVE RStrip(_)
RStrip(text) ==
    IF text # <<>> /\ text[Len(text)].k = "space"
    THEN RStrip(SubSeq(text, 1, Len(text) - 1))
    ELSE text

Strip(text) == RStrip(LStrip(text))

Occurrences(text, kind) == {i \in 1..Len(text) : text[i].k = kind}

Find(text, kind) ==
    IF Occurrences(text, kind) = {} THEN -1
    ELSE (CHOOSE i \in Occurrences(text, kind) :
              \A j \in Occurrences(text, kind) : i <= j) - 1

RFind(text, kind) ==
    IF Occurrences(text, kind) = {} THEN -1
    ELSE (CHOOSE i \in Occurrences(text, kind) :
              \A j \in Occurrences(text, kind) : i >= j) - 1

\* text[start:end] for 0 <= start < end <= len(text)
Slice(text, start, end) == SubSeq(text, start + 1, end)

(***************************************************************************)
(* json.loads on a token sequence: a recursive-descent decoder of          *)
(*    value  ::= scalar | object                                           *)
(*    object ::= "{" "}" | "{" member ("," member)* "}"                    *)
(*    member ::= string ":" value                                          *)
(* White space between tokens is skipped; a repeated key keeps its last    *)
(* value; anything after the value is "Extra data".  A result is           *)
(* [ok, val, mem, next]: val the decoded value (JObj for an object), mem   *)
(* the object's members as a function from keys, next the index after.     *)
(***************************************************************************)
EmptyObject == [x \in {} |-> Absent]
Failure == [ok |-> FALSE, val |-> Absent, mem |-> EmptyObject, next |-> 0]
Put(mem, key, v) ==
    [x \in DOMAIN mem \cup {key} |-> IF x = key THEN v ELSE mem[x]]

NoSpace(text) == SelectSeq(text, LAMBDA t : t.k # "space")

RECURSIVE DecodeValue(_, _), DecodeMembers(_, _, _)
DecodeValue(toks, i) ==
    IF i > Len(toks) THEN Failure
    ELSE IF toks[i].k \in ScalarKinds
         THEN [ok |-> TRUE, val |-> toks[i], mem |-> EmptyObject, next |-> i + 1]
    ELSE IF toks[i].k = "lbrace"
         THEN IF i + 1 <= Len(toks) /\ toks[i + 1].k = "rbrace"
              THEN [ok |-> TRUE, val |-> JObj, mem |-> EmptyObject, next |-> i + 2]
              ELSE DecodeMembers(toks, i + 1, EmptyObject)
    ELSE Failure

DecodeMembers(toks, i, acc) ==
    IF i + 1 > Len(toks) \/ toks[i].k # "str" \/ toks[i + 1].k # "colon"
    THEN Failure
    ELSE LET v == DecodeValue(toks, i + 2)
         IN  IF ~v.ok \/ v.next > Len(toks) THEN Failure
             ELSE IF toks[v.next].k = "rbrace"
                  THEN [ok |-> TRUE, val |-> JObj,
                        mem |-> Put(acc, toks[i].s, v.val), next |-> v.next + 1]
             ELSE IF toks[v.next].k = "comma"
                  THEN DecodeMembers(toks, v.next + 1, Put(acc, toks[i].s, v.val))
             ELSE Failure

\* json.loads(json_str): ok is FALSE where Python raises JSONDecodeError.
Loads(json_str) ==
    LET toks == NoSpace(json_str)
        r == DecodeValue(toks, 1)
    IN  IF r.ok /\ r.next = Len(toks) + 1 THEN r ELSE Failure

\* data.get(key, default)
Get(data, key, default) == IF key \in DOMAIN data THEN data[key] ELSE default

(***************************************************************************)
(* FactionAgent._parse_decision.                                           *)
(***************************************************************************)
DefaultPriority == 5
ParseFallbackPriority == 5
AgentFallbackPriority == 5
ParseFallbackReasoning == "Could not parse AI response, defaulting to defensive posture"

\* A variant of ParseCatches: the handler names the validation error only.
ParseCatchesValidationOnly(exc) == exc = "ValidationError"

\* The handler of the try statement: except json.JSONDecodeError
ParseCatches(exc) == exc = "JSONDecodeError"

ParseFallback ==
    DecisionResponse(JStr("defend"), JInt(ParseFallbackPriority), JNull,
                     JStr(ParseFallbackReasoning))

\* A variant of FromData: the defaults are used together, as soon as one
\* field is absent.
FromDataAllOrNothing(data) ==
    IF {"action", "priority", "target", "reasoning"} \subseteq DOMAIN data
    THEN DecisionResponse(data["action"], data["priority"], data["target"],
                          data["reasoning"])
    ELSE DecisionResponse(JStr("none"), JInt(DefaultPriority), JNull,
                          JStr("No reasoning provided"))

\* The DecisionResponse built from the decoded object.
FromData(data) ==
    DecisionResponse(Get(data, "action", JStr("none")),
                     Get(data, "priority", JInt(DefaultPriority)),
                     Get(data, "target", JNull),
                     Get(data, "reasoning", JStr("No reasoning provided")))

\* A variant of JsonStr: the whole text is decoded.
JsonStrWhole(text) == text

\* The substring the parser decodes: text[start:end].
JsonStr(text) == Slice(text, Find(text, "lbrace"), RFind(text, "rbrace") + 1)

\* Whether the parser finds a substring to decode.
HasJson(text) ==
    LET start == Find(text, "lbrace")
        end == RFind(text, "rbrace") + 1
    IN  start >= 0 /\ end > start

\* The body of the try statement: the DecisionResponse it returns, the
\* exception it raises, or "fallthrough" when the if is not taken.
ParseTry(text) ==
    IF HasJson(text)
    THEN LET data == Loads(JsonStr(text))
         IN  IF data.ok THEN FromData(data.mem)
             ELSE [raised |-> "JSONDecodeError", decision |-> NoDecision]
    ELSE [raised |-> "fallthrough", decision |-> NoDecision]

\* _parse_decision(response_text): [raised, decision].
ParseDecision(text) ==
    LET r == ParseTry(Strip(text))
    IN  IF r.raised = "none" THEN r
        ELSE IF r.raised = "fallthrough" \/ ParseCatches(r.raised) THEN ParseFallback
        ELSE r


(***************************************************************************)
(* The texts a model can return: a body, with up to MaxComment tokens of   *)
(* commentary before it and after it.  A body is the JSON text of an       *)
(* object built from a choice of value (or absence) for each of the four   *)
(* keys, or one of the other bodies listed in OtherBodies.                 *)
(***************************************************************************)
Keys == <<"action", "priority", "target", "reasoning">>

Choices ==
    [action |-> {Absent, JStr("attack"), JStr("raid"), JStr("surrender"), JInt(7)},
     priority |-> {Absent, JInt(8), JInt(0), JInt(11), JFloat(85), JFloat(80),
                   JStr("high"), JStr("8")},
     target |-> {Absent, JNull, JStr("Terra")},
     reasoning |-> {Absent, JStr("test"), JNull}]

FieldChoices ==
    {f \in [{"action", "priority", "target", "reasoning"} ->
                UNION {Choices[k] : k \in DOMAIN Choices}] :
        \A k \in DOMAIN f : f[k] \in Choices[k]}

AllAbsent == [k \in {"action", "priority", "target", "reasoning"} |-> Absent]

\* json.dumps of the object with the chosen members, in the order of Keys.
RECURSIVE Members(_, _)
Members(f, i) ==
    IF i > Len(Keys) THEN <<>>
    ELSE LET rest == Members(f, i + 1)
         IN  IF f[Keys[i]] = Absent THEN rest
             ELSE <<JStr(Keys[i]), COLON, f[Keys[i]]>>
                      \o (IF rest = <<>> THEN <<>> ELSE <<COMMA, WS>> \o rest)

Render(f) == <<LB>> \o Members(f, 1) \o <<RB>>

OtherBodies ==
    { <<>>,
      <<WORD>>,
      <<LB>>,
      <<RB>>,
      <<RB, WORD, LB>>,
      <<LB, JStr("action"), JStr("raid"), RB>>,
      <<LB, JStr("action"), COLON, JStr("raid"), COMMA, RB>>,
      <<LB, JStr("action"), COLON, JStr("raid"), RB, WORD,
        LB, JStr("action"), COLON, JStr("build"), RB>>,
      <<LB, JStr("action"), COLON, JStr("raid"), COMMA,
        JStr("action"), COLON, JStr("build"), RB>>,
      <<LB, JStr("target"), COLON, LB, JStr("id"), COLON, JInt(3), RB, RB>>,
      <<LB, JStr("note"), COLON, JStr("test"), RB>>,
      <<LB, JStr("priority"), COLON, JTrue, RB>>,
      <<LB, JStr("target"), COLON, JInt(3), RB>>,
      <<LB, JInt(8), RB>> }

CommentTokens == {WORD, WS, LB, RB}
Comments == UNION {[1..n -> CommentTokens] : n \in 0..MaxComment}

\* A text, with how it was built.
ObjectInput(pre, f, post) ==
    [text |-> pre \o Render(f) \o post,
     shape |-> "object", fields |-> f, pre |-> pre, post |-> post]

OtherInput(pre, b, post) ==
    [text |-> pre \o b \o post,
     shape |-> "other", fields |-> AllAbsent, pre |-> pre, post |-> post]

(***************************************************************************)
(* Idle values of the three components.                                    *)
(***************************************************************************)
NoResponse == [content |-> <<>>, provider |-> "<pending>"]  \* nothing returned yet
None == [content |-> <<>>, provider |-> Null]              \* Python's None
NoInput == [text |-> <<>>, shape |-> "other", fields |-> AllAbsent,
            pre |-> <<>>, post |-> <<>>]

NoReply == [kind |-> "none", text |-> <<>>]

RetryIdle ==
    /\ retry_attempts = 0 /\ rpc = "idle" /\ attempt = 0 /\ last_error = Null
    /\ genCalls = 0 /\ slept = <<>> /\ outcomes = <<>>
    /\ rresult = NoResponse /\ rraised = FALSE

ParseIdle ==
    /\ response_text = <<>> /\ given = NoInput /\ ppc = "idle"
    /\ presult = NoDecision /\ praised = "none"

DecideIdle ==
    /\ dpc = "off" /\ personaOk = TRUE /\ reply = NoReply /\ dgenCalls = 0
    /\ caught = "none" /\ failedAt = "none" /\ responses = <<>> /\ draised = FALSE

NoConfig == [provider |-> "", model |-> "", endpoint |-> Null]
NoProvider == [family |-> "<none>", endpoint |-> Null]
\* What a request to the vendor met: [kind, names] (see Probes).
Probe(kind, names) == [kind |-> kind, names |-> names]
NoProbe == Probe("none", <<>>)
NoValidated == [raised |-> "<pending>", value |-> FALSE]
NoModels == [raised |-> "<pending>", names |-> <<>>]
NoVendor == [kind |-> "none", error |-> "none", has_usage |-> FALSE,
             has_in |-> FALSE, has_out |-> FALSE, tin |-> 0, tout |-> 0]
NoTimes == [setup |-> 0, network |-> 0, decode |-> 0]
NoGenerated == [raised |-> "<pending>", provider |-> Null, usage |-> <<>>,
                latency_ms |-> 0]

ProviderIdle ==
    /\ config = NoConfig /\ given_config = NoConfig /\ fpc = "off"
    /\ provider = NoProvider /\ ferror = "none"
    /\ vprobe = NoProbe /\ vresult = NoValidated
    /\ mlisting = NoProbe /\ mresult = NoModels
    /\ gvendor = NoVendor /\ gtimes = NoTimes /\ gresult = NoGenerated

NoProbes == [ollama |-> [raised |-> "none", status_code |-> 0],
             lmstudio |-> [raised |-> "none", status_code |-> 0]]
NoDetected == [raised |-> "<pending>", value |-> <<>>]

DetectIdle ==
    /\ detpc = "off" /\ probes = NoProbes /\ probed = <<>>
    /\ available = <<>> /\ detresult = NoDetected

NoHttp == [status |-> 0, decisions |-> <<>>]

BatchIdle ==
    /\ bpc = "off" /\ batch = <<>> /\ decisions = <<>> /\ bcalls = <<>>
    /\ bresponse = NoHttp

\* No call is in flight.
ConcIdle == calls = <<>> /\ delivered = <<>>

NoRequest == [neighbors |-> <<>>, recentEvents |-> <<>>]
NoContext == [neighbors_text |-> <<>>, events_text |-> <<>>]

ContextIdle == request = NoRequest /\ ctxpc = "off" /\ context = NoContext

\* What client.messages.create does for a request: it returns a text, or
\* raises.
TextAnswer(text) == [kind |-> "text", text |-> text, error |-> "none"]
ErrorAnswer(exc) == [kind |-> "error", text |-> <<>>, error |-> exc]
NoAnswer == [kind |-> "none", text |-> <<>>, error |-> "none"]

NoPayload == [payload |-> "none", factionId |-> "", answer |-> NoAnswer]
NoReturn == [status |-> 0, body |-> "none", decision |-> NoDecision]

RouteIdle ==
    /\ hpc = "off" /\ hrequest = NoPayload /\ hcalls = 0 /\ hresponse = NoReturn

NoFile == 0 - 1
RotationIdle ==
    /\ lpc = "off" /\ now = 0 /\ log_dir = {} /\ current_log_file = NoFile

NoBody == [kind |-> "none", name |-> ""]
NoCall == [op |-> "none", body |-> NoBody, level |-> 0, before |-> 0]
NoLevelResponse == [kind |-> "none", name |-> ""]
LoggerIdle ==
    /\ enabled = FALSE /\ level = 0 /\ written = <<>> /\ lastcall = NoCall
    /\ lresponse = NoLevelResponse

ServiceIdle ==
    ConcIdle /\ ContextIdle /\ RouteIdle /\ RotationIdle /\ LoggerIdle

(***************************************************************************)
(* SpecParse: _parse_decision applied to each text.                        *)
(***************************************************************************)
ParseInit ==
    /\ \E pre \in Comments, post \in Comments :
          \/ \E f \in FieldChoices :
                /\ given = ObjectInput(pre, f, post)
                /\ response_text = given.text
          \/ \E b \in OtherBodies :
                /\ given = OtherInput(pre, b, post)
                /\ response_text = given.text
    /\ ppc = "ready" /\ presult = NoDecision /\ praised = "none"
    /\ RetryIdle /\ DecideIdle /\ ProviderIdle /\ DetectIdle /\ BatchIdle /\ ServiceIdle

\* One call of _parse_decision(response_text).
Parse ==
    /\ ppc = "ready"
    /\ LET r == ParseDecision(response_text)
       IN  /\ ppc' = IF r.raised = "none" THEN "returned" ELSE "raised"
           /\ presult' = r.decision
           /\ praised' = r.raised
    /\ UNCHANGED <<response_text, given, retryVars, decideVars,
                   providerVars, detectVars, batchVars, serviceVars>>

ParseNext == Parse

SpecParse == ParseInit /\ [][ParseNext]_vars

(***************************************************************************)
(* Claims about _parse_decision.                                           *)
(***************************************************************************)
NoBraces(c) == \A j \in 1..Len(c) : c[j].k \notin {"lbrace", "rbrace"}

\* The text is one JSON object between commentary that holds no brace.
PlainObjectInput ==
    given.shape = "object" /\ NoBraces(given.pre) /\ NoBraces(given.post)

\* The text is one JSON object, with no opening brace before it and no
\* closing brace after it.
ObjectIsExtracted ==
    /\ given.shape = "object"
    /\ \A j \in 1..Len(given.pre) : given.pre[j].k # "lbrace"
    /\ \A j \in 1..Len(given.post) : given.post[j].k # "rbrace"

\* The value chosen for a key has the type DecisionResponse declares for it.
TypedChoice(key, v) ==
    CASE key = "action" -> v.k = "str"
      [] key = "priority" -> v.k = "int"
      [] key = "target" -> v.k \in {"str", "null"}
      [] key = "reasoning" -> v.k = "str"

\* C8: the parser never fails: for every input it returns a DecisionResponse
\* and raises no exception.
C8_ParserNeverRaises == ppc # "ready" => (ppc = "returned" /\ praised = "none")

\* C9: a single JSON object carrying action, priority, target and reasoning
\* (each of its declared type), between commentary without braces, is
\* returned with exactly those four values.
C9_ObjectReturnedUnmodified ==
    (/\ ppc # "ready"
     /\ PlainObjectInput
     /\ \A k \in DOMAIN given.fields :
           given.fields[k] # Absent /\ TypedChoice(k, given.fields[k]))
    => /\ ppc = "returned"
       /\ presult.action = given.fields["action"].s
       /\ presult.priority = given.fields["priority"].n
       /\ presult.target = (IF given.fields["target"].k = "null" THEN <<>>
                            ELSE <<given.fields["target"].s>>)
       /\ presult.reasoning = given.fields["reasoning"].s

C9_Witness ==
    /\ ppc = "returned"
    /\ given.shape = "object"
    /\ given.pre = <<WORD>> /\ given.post = <<WORD>>
    /\ given.fields = [action |-> JStr("attack"), priority |-> JInt(8),
                       target |-> JStr("Terra"), reasoning |-> JStr("test")]
    /\ presult = [action |-> "attack", priority |-> 8,
                  target |-> <<"Terra">>, reasoning |-> "test"]

\* C10: when the text decodes to an object, each absent field takes its own
\* default (action "none", priority 5, target null, reasoning "No reasoning
\* provided") and each present field (of its declared type) is kept.
C10_DefaultsPerField ==
    (/\ ppc # "ready"
     /\ ObjectIsExtracted
     /\ \A k \in DOMAIN given.fields :
           given.fields[k] = Absent \/ TypedChoice(k, given.fields[k]))
    => /\ ppc = "returned"
       /\ presult.action = (IF given.fields["action"] = Absent THEN "none"
                            ELSE given.fields["action"].s)
       /\ presult.priority = (IF given.fields["priority"] = Absent THEN 5
                              ELSE given.fields["priority"].n)
       /\ presult.target = (IF given.fields["target"].k \in {"absent", "null"}
                            THEN <<>> ELSE <<given.fields["target"].s>>)
       /\ presult.reasoning = (IF given.fields["reasoning"] = Absent
                               THEN "No reasoning provided"
                               ELSE given.fields["reasoning"].s)

C10_Witness ==
    /\ ppc = "returned"
    /\ given.shape = "object"
    /\ given.pre = <<>> /\ given.post = <<>>
    /\ given.fields = [action |-> JStr("raid"), priority |-> Absent,
                       target |-> Absent, reasoning |-> Absent]
    /\ response_text = <<LB, JStr("action"), COLON, JStr("raid"), RB>>
    /\ presult = [action |-> "raid", priority |-> 5,
                  target |-> <<>>, reasoning |-> "No reasoning provided"]

\* The text has no opening brace.
NoOpeningBrace ==
    \A j \in 1..Len(response_text) : response_text[j].k # "lbrace"

\* The text has an opening brace and no closing brace after the first one.
NoClosingBraceAfter ==
    \E i \in 1..Len(response_text) :
        /\ response_text[i].k = "lbrace"
        /\ \A j \in 1..(i - 1) : response_text[j].k # "lbrace"
        /\ \A j \in (i + 1)..Len(response_text) : response_text[j].k # "rbrace"

\* Bodies that are not JSON whatever commentary surrounds them: a member
\* without its colon, a trailing comma, two objects, a member without a key.
UndecodableBodies ==
    { <<LB, JStr("action"), JStr("raid"), RB>>,
      <<LB, JStr("action"), COLON, JStr("raid"), COMMA, RB>>,
      <<LB, JStr("action"), COLON, JStr("raid"), RB, WORD,
        LB, JStr("action"), COLON, JStr("build"), RB>>,
      <<LB, JInt(8), RB>> }

\* The text between the first opening and the last closing brace is not
\* JSON, by the way the text was built: an undecodable body, or an object
\* with a stray opening brace before it or a stray closing brace after it.
UndecodableByConstruction ==
    \/ /\ given.shape = "other"
       /\ SubSeq(response_text, Len(given.pre) + 1,
                 Len(response_text) - Len(given.post)) \in UndecodableBodies
    \/ /\ given.shape = "object"
       /\ \/ \E j \in 1..Len(given.pre) : given.pre[j] = LB
          \/ \E j \in 1..Len(given.post) : given.post[j] = RB

\* C11: a text with no opening brace, with no closing brace after the first
\* opening brace, or whose text between the first opening and the last
\* closing brace is not JSON, makes the parser return exactly the decision
\* defend, priority 5, no target, with the fixed reasoning string.
C11_FixedFallbackOnUnparsable ==
    (/\ ppc # "ready"
     /\ NoOpeningBrace \/ NoClosingBraceAfter \/ UndecodableByConstruction)
    => /\ ppc = "returned"
       /\ presult = [action |-> "defend", priority |-> 5, target |-> <<>>,
                     reasoning |-> "Could not parse AI response, defaulting to defensive posture"]

C11_Witness ==
    /\ ppc = "returned"
    /\ response_text = <<WORD, LB, JStr("action"), COLON, JStr("raid"), COMMA, RB>>
    /\ UndecodableByConstruction
    /\ presult.action = "defend" /\ presult.priority = 5 /\ presult.target = <<>>
    /\ presult.reasoning = "Could not parse AI response, defaulting to defensive posture"

(***************************************************************************)
(* SpecRetry: LLMProvider.generate_with_retry (providers/base.py), with a  *)
(* generate that, on each call, returns a response or raises.              *)
(***************************************************************************)
ErrorKinds ==
    {"AuthFailure", "ConnectionFailure", "RateLimited", "InvalidResponse", "Timeout"}

Contents == {<<WORD>>, <<LB, RB>>}

LLMResponse(content) == [content |-> content, provider |-> "stub"]

RetryInit ==
    /\ retry_attempts \in 0..MaxRetry
    /\ rpc = "loop" /\ attempt = 0 /\ last_error = Null
    /\ genCalls = 0 /\ slept = <<>> /\ outcomes = <<>>
    /\ rresult = NoResponse /\ rraised = FALSE
    /\ ParseIdle /\ DecideIdle /\ ProviderIdle /\ DetectIdle /\ BatchIdle /\ ServiceIdle

\* A variant of InRange: the body of the loop runs at least once.
InRangeAtLeastOnce(a) == a < retry_attempts \/ a = 0

\* for attempt in range(self.config.retry_attempts): the loop has a turn for a.
InRange(a) == a < retry_attempts

\* A variant of Backoff: the delay doubles.
BackoffDoubling(a) == 2 ^ a

\* The argument of time.sleep after the failure of the attempt of index a.
Backoff(a) == 1 * (a + 1)

\* A variant of SleepsAfter: it sleeps after the last attempt too.
SleepsAfterEvery(a) == TRUE

\* Whether the executor sleeps after the failure of the attempt of index a.
SleepsAfter(a) == a < retry_attempts - 1

\* A variant of CatchesInRetry: a timeout is left to the caller.
CatchesAllButTimeout(e) == e # "Timeout"

\* The handler of the loop body: except Exception.
CatchesInRetry(e) == TRUE

\* self.generate(...) returns: generate_with_retry returns its response.
GenerateReturns(content) ==
    /\ rpc = "loop" /\ InRange(attempt)
    /\ genCalls' = genCalls + 1
    /\ outcomes' = Append(outcomes, [kind |-> "ok", content |-> content])
    /\ rresult' = LLMResponse(content)
    /\ rpc' = "returned"
    /\ UNCHANGED <<retry_attempts, attempt, last_error, slept, rraised>>
    /\ UNCHANGED <<parseVars, decideVars, providerVars, detectVars, batchVars,
                   serviceVars>>

\* self.generate(...) raises e: the handler records it and either goes to
\* sleep or to the next iteration.
GenerateRaises(e) ==
    /\ rpc = "loop" /\ InRange(attempt)
    /\ genCalls' = genCalls + 1
    /\ outcomes' = Append(outcomes, [kind |-> e, content |-> <<>>])
    /\ IF CatchesInRetry(e)
       THEN /\ last_error' = e
            /\ IF SleepsAfter(attempt)
               THEN rpc' = "sleep" /\ attempt' = attempt
               ELSE rpc' = "loop" /\ attempt' = attempt + 1
            /\ UNCHANGED rraised
       ELSE /\ rpc' = "raised" /\ rraised' = TRUE
            /\ UNCHANGED <<last_error, attempt>>
    /\ UNCHANGED <<retry_attempts, slept, rresult>>
    /\ UNCHANGED <<parseVars, decideVars, providerVars, detectVars, batchVars,
                   serviceVars>>

\* time.sleep(1 * (attempt + 1)), then the next iteration.
Sleep ==
    /\ rpc = "sleep"
    /\ slept' = Append(slept, Backoff(attempt))
    /\ attempt' = attempt + 1
    /\ rpc' = "loop"
    /\ UNCHANGED <<retry_attempts, last_error, genCalls, outcomes, rresult, rraised>>
    /\ UNCHANGED <<parseVars, decideVars, providerVars, detectVars, batchVars,
                   serviceVars>>

\* The loop is over: return None.
Exhausted ==
    /\ rpc = "loop" /\ ~InRange(attempt)
    /\ rpc' = "null"
    /\ rresult' = None
    /\ UNCHANGED <<retry_attempts, attempt, last_error, genCalls, slept, outcomes,
                   rraised>>
    /\ UNCHANGED <<parseVars, decideVars, providerVars, detectVars, batchVars,
                   serviceVars>>

RetryNext ==
    \/ \E c \in Contents : GenerateReturns(c)
    \/ \E e \in ErrorKinds : GenerateRaises(e)
    \/ Sleep
    \/ Exhausted

SpecRetry == RetryInit /\ [][RetryNext]_vars

(***************************************************************************)
(* Claims about generate_with_retry.                                       *)
(***************************************************************************)
RECURSIVE SumSeq(_)
SumSeq(q) == IF q = <<>> THEN 0 ELSE Head(q) + SumSeq(Tail(q))

\* The calls of generate that raised, so far.
Failures == {i \in 1..Len(outcomes) : outcomes[i].kind # "ok"}

C5_NullAfterExhaustion ==
    /\ ~rraised /\ rpc # "raised"
    /\ genCalls <= retry_attempts
    /\ (rpc \notin {"loop", "sleep"} /\ Failures = 1..Len(outcomes))
          => /\ rpc = "null"
             /\ rresult = None
             /\ genCalls = retry_attempts
             /\ Len(outcomes) = retry_attempts
    /\ (rpc \in {"loop", "sleep"}) => rresult = NoResponse

C5_Witness ==
    /\ rpc = "null"
    /\ retry_attempts = 3
    /\ genCalls = 3
    /\ <<outcomes[1].kind, outcomes[2].kind, outcomes[3].kind>>
          = <<"Timeout", "AuthFailure", "RateLimited">>
    /\ rresult = None

C27_ZeroAttempts ==
    retry_attempts = 0
    => /\ genCalls = 0 /\ outcomes = <<>>
       /\ slept = <<>>
       /\ ~rraised
       /\ rpc \in {"idle", "loop", "null"}
       /\ rpc = "null" => rresult = None
       /\ rpc # "null" => rresult = NoResponse

C27_Witness ==
    /\ retry_attempts = 0
    /\ rpc = "null" /\ rresult = None
    /\ genCalls = 0 /\ slept = <<>> /\ ~rraised

(***************************************************************************)
(* SpecDecide: FactionAgent.make_decision (agents/faction_agent.py), with  *)
(* a client whose messages.create returns a message or raises.             *)
(***************************************************************************)
RetryAttemptsDefault == 3
AgentFallbackPrefix == "Fallback decision due to error: "

\* The bodies a message can carry.
Bodies == {Render(f) : f \in FieldChoices} \cup OtherBodies

DecideInit ==
    /\ dpc = "prompting" /\ personaOk \in BOOLEAN /\ reply = NoReply
    /\ dgenCalls = 0 /\ caught = "none" /\ failedAt = "none"
    /\ responses = <<>> /\ draised = FALSE
    /\ RetryIdle /\ ParseIdle /\ ProviderIdle /\ DetectIdle /\ BatchIdle /\ ServiceIdle

\* A variant of DecideCatches: only the client's errors are handled.
DecideCatchesClientErrors(e) == e \in ErrorKinds

\* The handler of make_decision: except Exception.
DecideCatches(e) == TRUE

\* The fallback the handler returns for the exception e.
AgentFallback(e) ==
    DecisionResponse(JStr("defend"), JInt(AgentFallbackPriority), JNull,
                     JStr(AgentFallbackPrefix \o e))

\* The step `step` raised e: the handler returns the fallback, or e leaves
\* make_decision.
Raise(step, e) ==
    /\ failedAt' = step
    /\ IF DecideCatches(e)
       THEN /\ caught' = e
            /\ dpc' = "done"
            /\ responses' = Append(responses, AgentFallback(e).decision)
            /\ UNCHANGED draised
       ELSE /\ dpc' = "raised"
            /\ draised' = TRUE
            /\ UNCHANGED <<caught, responses>>

\* _build_context(request) and _build_system_prompt(): the latter raises
\* KeyError when the faction's personality lacks a trait.
BuildPrompts ==
    /\ dpc = "prompting"
    /\ IF personaOk
       THEN /\ dpc' = "generating"
            /\ UNCHANGED <<caught, failedAt, responses, draised>>
       ELSE Raise("prompting", "KeyError")
    /\ UNCHANGED <<personaOk, reply, dgenCalls>>
    /\ UNCHANGED <<retryVars, parseVars, providerVars, detectVars, batchVars,
                   serviceVars>>

\* client.messages.create(...) returns a message with one text block.
CreateReturnsText(body) ==
    /\ dpc = "generating"
    /\ dgenCalls' = dgenCalls + 1
    /\ reply' = [kind |-> "text", text |-> body]
    /\ dpc' = "parsing"
    /\ UNCHANGED <<personaOk, caught, failedAt, responses, draised>>
    /\ UNCHANGED <<retryVars, parseVars, providerVars, detectVars, batchVars,
                   serviceVars>>

\* client.messages.create(...) returns a message with no content block.
CreateReturnsEmpty ==
    /\ dpc = "generating"
    /\ dgenCalls' = dgenCalls + 1
    /\ reply' = [kind |-> "empty", text |-> <<>>]
    /\ dpc' = "parsing"
    /\ UNCHANGED <<personaOk, caught, failedAt, responses, draised>>
    /\ UNCHANGED <<retryVars, parseVars, providerVars, detectVars, batchVars,
                   serviceVars>>

\* A variant of CreateRaises: the call is made again, up to
\* RetryAttemptsDefault times, before the handler is reached.
CreateRaisesRetrying(e) ==
    /\ dpc = "generating"
    /\ dgenCalls' = dgenCalls + 1
    /\ IF dgenCalls + 1 < RetryAttemptsDefault
       THEN UNCHANGED <<dpc, caught, failedAt, responses, draised>>
       ELSE Raise("generating", e)
    /\ UNCHANGED <<personaOk, reply>>
    /\ UNCHANGED <<retryVars, parseVars, providerVars, detectVars, batchVars,
                   serviceVars>>

\* client.messages.create(...) raises e.
CreateRaises(e) ==
    /\ dpc = "generating"
    /\ dgenCalls' = dgenCalls + 1
    /\ Raise("generating", e)
    /\ UNCHANGED <<personaOk, reply>>
    /\ UNCHANGED <<retryVars, parseVars, providerVars, detectVars, batchVars,
                   serviceVars>>

\* message.content[0].text, then _parse_decision, then the return.
ParseReply ==
    /\ dpc = "parsing"
    /\ IF reply.kind = "empty"
       THEN Raise("parsing", "IndexError")
       ELSE LET r == ParseDecision(reply.text)
            IN  IF r.raised = "none"
                THEN /\ dpc' = "done"
                     /\ responses' = Append(responses, r.decision)
                     /\ UNCHANGED <<caught, failedAt, draised>>
                ELSE Raise("parsing", r.raised)
    /\ UNCHANGED <<personaOk, reply, dgenCalls>>
    /\ UNCHANGED <<retryVars, parseVars, providerVars, detectVars, batchVars,
                   serviceVars>>

DecideNext ==
    \/ BuildPrompts
    \/ \E b \in Bodies : CreateReturnsText(b)
    \/ CreateReturnsEmpty
    \/ \E e \in ErrorKinds : CreateRaises(e)
    \/ ParseReply

SpecDecide == DecideInit /\ [][DecideNext]_vars

(***************************************************************************)
(* Claims about make_decision.                                             *)
(***************************************************************************)
Actions == {"attack", "defend", "raid", "diplomacy", "build", "none"}

\* C1: whatever the backend does, make_decision returns exactly one
\* DecisionResponse and no exception reaches its caller.
C1_AlwaysOneResponse ==
    /\ ~draised /\ dpc # "raised"
    /\ Len(responses) = (IF dpc = "done" THEN 1 ELSE 0)
    /\ \A i \in 1..Len(responses) : responses[i] # NoDecision
    /\ caught # "none" => dpc = "done"

C1_Witness ==
    /\ dpc = "done"
    /\ caught = "ValidationError"
    /\ failedAt = "parsing"
    /\ Len(responses) = 1
    /\ ~draised

\* C2: every DecisionResponse returned by make_decision has priority in 1..10.
C2_PriorityInRange ==
    \A i \in 1..Len(responses) : responses[i].priority \in 1..10

\* C3: every DecisionResponse returned by make_decision has its action among
\* attack, defend, raid, diplomacy, build, none.
C3_ActionInSet ==
    \A i \in 1..Len(responses) : responses[i].action \in Actions

C20_AgentFallbackOnlyFromGeneration ==
    (/\ dpc = "done"
     /\ caught # "none"
     /\ responses = <<AgentFallback(caught).decision>>)
    => failedAt = "generating"

(***************************************************************************)
(* SpecProvider: create_provider (providers/factory.py) and the operations *)
(* of the provider it returns (providers/*_provider.py).                   *)
(***************************************************************************)
\* The registry: the provider class of each registered name.
PROVIDERS ==
    ("anthropic" :> "AnthropicProvider") @@ ("claude" :> "AnthropicProvider") @@
    ("openai" :> "OpenAIProvider") @@ ("gpt" :> "OpenAIProvider") @@
    ("ollama" :> "OllamaProvider") @@ ("groq" :> "GroqProvider") @@
    ("lmstudio" :> "LMStudioProvider") @@ ("lm-studio" :> "LMStudioProvider")

DEFAULT_MODELS ==
    ("anthropic" :> "claude-sonnet-4-20250514") @@ ("openai" :> "gpt-4o-mini") @@
    ("ollama" :> "llama3.1") @@ ("groq" :> "llama-3.1-70b-versatile") @@
    ("lmstudio" :> "local-model")

\* The provider names of the configurations: the registered names, spellings
\* of them with capitals, and names that are not registered.
ProviderNames ==
    DOMAIN PROVIDERS \cup {"Claude", "OLLAMA", "LM-Studio", "gemini", "Gemini", ""}

\* str.lower() on the names of the model.
Lower(name) ==
    CASE name = "Claude" -> "claude"
      [] name = "OLLAMA" -> "ollama"
      [] name = "LM-Studio" -> "lm-studio"
      [] name = "Gemini" -> "gemini"
      [] OTHER -> name

\* A variant of IsRegistered: the aliases are not looked up.
IsRegisteredCanonical(provider_name) == provider_name \in DOMAIN DEFAULT_MODELS

\* provider_name in PROVIDERS
IsRegistered(provider_name) == provider_name \in DOMAIN PROVIDERS

\* A variant of BaseName: the name is used as it is.
BaseNameUnresolved(provider_name) == provider_name

\* base_name: the name the default model is looked up under.
BaseName(provider_name) ==
    CASE provider_name = "claude" -> "anthropic"
      [] provider_name = "gpt" -> "openai"
      [] provider_name = "lm-studio" -> "lmstudio"
      [] OTHER -> provider_name

\* DEFAULT_MODELS.get(base_name, "")
DefaultModel(base_name) ==
    IF base_name \in DOMAIN DEFAULT_MODELS THEN DEFAULT_MODELS[base_name] ELSE ""

\* The classes whose constructor imports a client package.
ImportsClient ==
    {"AnthropicProvider", "OpenAIProvider", "GroqProvider", "LMStudioProvider"}

\* The endpoint a provider object keeps: config.endpoint or DEFAULT_ENDPOINT.
DEFAULT_ENDPOINT ==
    ("OllamaProvider" :> "http://localhost:11434") @@
    ("LMStudioProvider" :> "http://localhost:1234/v1")

EndpointOf(class, cfg) ==
    IF class \in DOMAIN DEFAULT_ENDPOINT
    THEN IF cfg.endpoint = Null THEN DEFAULT_ENDPOINT[class] ELSE cfg.endpoint
    ELSE Null

Models == {"", "my-model"}
Endpoints == {Null, "http://10.0.0.5:8000"}

ProviderInit ==
    /\ config \in [provider : ProviderNames, model : Models, endpoint : Endpoints]
    /\ given_config = config
    /\ fpc = "ready" /\ provider = NoProvider /\ ferror = "none"
    /\ vprobe = NoProbe /\ vresult = NoValidated
    /\ mlisting = NoProbe /\ mresult = NoModels
    /\ gvendor = NoVendor /\ gtimes = NoTimes /\ gresult = NoGenerated
    /\ RetryIdle /\ ParseIdle /\ DecideIdle /\ DetectIdle /\ BatchIdle /\ ServiceIdle

\* create_provider(config), unknown name: raise ValueError.
CreateProviderUnknown ==
    /\ fpc = "ready"
    /\ ~IsRegistered(Lower(config.provider))
    /\ fpc' = "raised" /\ ferror' = "ValueError"
    /\ UNCHANGED <<config, given_config, provider, vprobe, vresult, mlisting,
                   mresult, gvendor, gtimes, gresult>>
    /\ UNCHANGED <<retryVars, parseVars, decideVars, detectVars, batchVars,
                   serviceVars>>

\* The config after the "Use default model if not specified" block.
WithDefaultModel(cfg) ==
    IF cfg.model = ""
    THEN [cfg EXCEPT !.model = DefaultModel(BaseName(Lower(cfg.provider)))]
    ELSE cfg

\* create_provider(config), registered name: the model is defaulted and
\* provider_class(config) returns the provider.
CreateProviderReturns ==
    /\ fpc = "ready"
    /\ IsRegistered(Lower(config.provider))
    /\ config' = WithDefaultModel(config)
    /\ provider' = [family |-> PROVIDERS[Lower(config.provider)],
                    endpoint |-> EndpointOf(PROVIDERS[Lower(config.provider)], config)]
    /\ fpc' = "created"
    /\ UNCHANGED <<given_config, ferror, vprobe, vresult, mlisting, mresult,
                   gvendor, gtimes, gresult>>
    /\ UNCHANGED <<retryVars, parseVars, decideVars, detectVars, batchVars,
                   serviceVars>>

\* create_provider(config), registered name: provider_class(config) raises
\* ImportError in _init_client, after the model was defaulted.
CreateProviderImportFails ==
    /\ fpc = "ready"
    /\ IsRegistered(Lower(config.provider))
    /\ PROVIDERS[Lower(config.provider)] \in ImportsClient
    /\ config' = WithDefaultModel(config)
    /\ fpc' = "raised" /\ ferror' = "ImportError"
    /\ UNCHANGED <<given_config, provider, vprobe, vresult, mlisting, mresult,
                   gvendor, gtimes, gresult>>
    /\ UNCHANGED <<retryVars, parseVars, decideVars, detectVars, batchVars,
                   serviceVars>>

(***************************************************************************)
(* validate_connection of the five provider classes.                       *)
(***************************************************************************)
CloudClasses == {"AnthropicProvider", "OpenAIProvider", "GroqProvider"}

\* What a request to the vendor can meet, Probe(kind, names): kind is the
\* exception the request raises, "status_500" for an answer whose status is
\* not 200, "bad_body" for a 200 whose body is not JSON, or "ok"; names are
\* the model names an "ok" answer lists.

\* The model lists a running Ollama answers with (GET /api/tags).
TagListings ==
    { <<>>, <<"phi3:latest">>, <<"llama3.1:latest">>,
      <<"phi3:latest", "my-model:q4">>, <<"llama3.1:70b", "my-model">> }

\* The model lists a running LM Studio answers with (models.list()).
LoadedListings == { <<>>, <<"qwen2.5-7b-instruct">> }

\* Per class: Ollama (requests.get), LM Studio (client.models.list()), the
\* cloud classes (a ping completion).
Probes(class) ==
    CASE class = "OllamaProvider" ->
            {Probe(k, <<>>) : k \in {"ConnectionError", "Timeout", "status_500",
                                     "bad_body"}}
            \cup {Probe("ok", l) : l \in TagListings}
      [] class = "LMStudioProvider" ->
            {Probe("APIConnectionError", <<>>)}
            \cup {Probe("ok", l) : l \in LoadedListings}
      [] OTHER ->
            {Probe(k, <<>>) : k \in {"AuthenticationError", "APIConnectionError",
                                     "ok"}}

\* name.split(":")[0] on the model names of the model.
SplitBase(name) ==
    CASE name \in {"llama3.1:latest", "llama3.1:70b"} -> "llama3.1"
      [] name = "phi3:latest" -> "phi3"
      [] name = "my-model:q4" -> "my-model"
      [] OTHER -> name

\* The exception a request raises, or "none".
RequestRaises(probe) ==
    IF probe.kind \in {"ok", "status_500", "bad_body"} THEN "none" ELSE probe.kind

Returned(v) == [raised |-> "none", value |-> v]
Raised(exc) == [raised |-> exc, value |-> FALSE]

\* The body of the try statement of OllamaProvider.validate_connection.
OllamaValidateTry(cfg, probe) ==
    IF RequestRaises(probe) # "none" THEN Raised(RequestRaises(probe))
    ELSE IF probe.kind = "status_500" THEN Returned(FALSE)
    ELSE IF probe.kind = "bad_body" THEN Raised("JSONDecodeError")
    ELSE LET model_names == {SplitBase(probe.names[i]) : i \in 1..Len(probe.names)}
             model_base == SplitBase(cfg.model)
         IN  IF model_base \notin model_names THEN Returned(FALSE)
             ELSE Returned(TRUE)

\* The body of the try statement of LMStudioProvider.validate_connection.
LMStudioValidateTry(probe) ==
    IF RequestRaises(probe) # "none" THEN Raised(RequestRaises(probe))
    ELSE IF probe.names = <<>> THEN Returned(FALSE)
    ELSE Returned(TRUE)

\* The body of the try statement of the cloud classes' validate_connection.
CloudValidateTry(probe) ==
    IF RequestRaises(probe) # "none" THEN Raised(RequestRaises(probe))
    ELSE Returned(TRUE)

\* A variant of ValidateCatches: only the first handler of Ollama's
\* validate_connection.
ValidateCatchesConnectionOnly(exc) == exc = "ConnectionError"

\* The handlers of validate_connection: except Exception.
ValidateCatches(exc) == TRUE

\* validate_connection(): [raised, value].
validate_connection(class, cfg, probe) ==
    LET r == CASE class = "OllamaProvider" -> OllamaValidateTry(cfg, probe)
               [] class = "LMStudioProvider" -> LMStudioValidateTry(probe)
               [] OTHER -> CloudValidateTry(probe)
    IN  IF r.raised # "none" /\ ValidateCatches(r.raised)
        THEN Returned(FALSE)
        ELSE r

ValidateConnection ==
    /\ fpc = "created"
    /\ \E probe \in Probes(provider.family) :
          /\ vprobe' = probe
          /\ vresult' = validate_connection(provider.family, config, probe)
    /\ UNCHANGED <<config, given_config, fpc, provider, ferror, mlisting, mresult,
                   gvendor, gtimes, gresult>>
    /\ UNCHANGED <<retryVars, parseVars, decideVars, detectVars, batchVars,
                   serviceVars>>

(***************************************************************************)
(* get_available_models of the five provider classes.                      *)
(***************************************************************************)
COMMON_MODELS ==
    <<"llama3.1", "llama3.1:70b", "llama3.2", "mistral", "mixtral",
      "codellama", "phi3", "gemma2", "qwen2.5">>

AVAILABLE_MODELS ==
    ("AnthropicProvider" :>
        <<"claude-sonnet-4-20250514", "claude-3-5-sonnet-20241022",
          "claude-3-opus-20240229", "claude-3-haiku-20240307">>) @@
    ("OpenAIProvider" :>
        <<"gpt-4o", "gpt-4o-mini", "gpt-4-turbo", "gpt-4", "gpt-3.5-turbo">>) @@
    ("GroqProvider" :>
        <<"llama-3.1-70b-versatile", "llama-3.1-8b-instant",
          "llama-3.2-90b-text-preview", "mixtral-8x7b-32768", "gemma2-9b-it">>)

Listed(names) == [raised |-> "none", names |-> names]
ListingRaised(exc) == [raised |-> exc, names |-> <<>>]

\* A variant of OllamaModelsFallback: nothing is listed.
OllamaModelsNone == <<>>

\* The return after the try statement of OllamaProvider.get_available_models.
OllamaModelsFallback == COMMON_MODELS

\* A variant of ModelsCatches: connection errors only.
ModelsCatchesConnectionOnly(exc) == exc \in {"ConnectionError", "APIConnectionError"}

\* The handlers of get_available_models: except Exception.
ModelsCatches(exc) == TRUE

\* OllamaProvider.get_available_models: a 200 returns the listed names; any
\* other status leaves the try statement, an exception is passed, and both
\* reach the return of the fallback.
OllamaModels(probe) ==
    LET r == IF RequestRaises(probe) # "none" THEN ListingRaised(RequestRaises(probe))
             ELSE IF probe.kind = "status_500" THEN ListingRaised("fallthrough")
             ELSE IF probe.kind = "bad_body" THEN ListingRaised("JSONDecodeError")
             ELSE Listed(probe.names)
    IN  IF r.raised = "none" THEN r
        ELSE IF r.raised = "fallthrough" \/ ModelsCatches(r.raised)
             THEN Listed(OllamaModelsFallback)
        ELSE r

\* LMStudioProvider.get_available_models.
LMStudioModels(probe) ==
    LET r == IF RequestRaises(probe) # "none" THEN ListingRaised(RequestRaises(probe))
             ELSE Listed(probe.names)
    IN  IF r.raised # "none" /\ ModelsCatches(r.raised) THEN Listed(<<"local-model">>)
        ELSE r

\* get_available_models(): [raised, names].  The cloud classes return a copy
\* of AVAILABLE_MODELS and make no request.
get_available_models(class, probe) ==
    CASE class = "OllamaProvider" -> OllamaModels(probe)
      [] class = "LMStudioProvider" -> LMStudioModels(probe)
      [] OTHER -> Listed(AVAILABLE_MODELS[class])

\* What the listing request meets; the cloud classes make none.
Listings(class) ==
    IF class \in CloudClasses THEN {NoProbe}
    ELSE {q \in Probes(class) : q.kind # "AuthenticationError"}

GetAvailableModels ==
    /\ fpc = "created"
    /\ \E probe \in Listings(provider.family) :
          /\ mlisting' = probe
          /\ mresult' = get_available_models(provider.family, probe)
    /\ UNCHANGED <<config, given_config, fpc, provider, ferror, vprobe, vresult,
                   gvendor, gtimes, gresult>>
    /\ UNCHANGED <<retryVars, parseVars, decideVars, detectVars, batchVars,
                   serviceVars>>

(***************************************************************************)
(* generate of the five provider classes: the usage of the LLMResponse.    *)
(* A dictionary is the sequence of its <<key, value>> pairs.               *)
(***************************************************************************)
\* What the vendor answers: an exception of the request, or a reply.  A
\* reply may carry usage data (has_usage), and the usage data each of the
\* two counts (has_in, has_out).  For Ollama the counts are the fields
\* prompt_eval_count and eval_count of the body, for the other classes the
\* attributes of response.usage.
VendorError(exc) ==
    [kind |-> "error", error |-> exc, has_usage |-> FALSE,
     has_in |-> FALSE, has_out |-> FALSE, tin |-> 0, tout |-> 0]

VendorReply(has_in, tin, has_out, tout) ==
    [kind |-> "reply", error |-> "none", has_usage |-> has_in \/ has_out,
     has_in |-> has_in, has_out |-> has_out, tin |-> tin, tout |-> tout]

VendorAnswers ==
    {VendorError(e) : e \in {"ConnectionError", "Timeout"}}
    \cup {VendorReply(FALSE, 0, FALSE, 0), VendorReply(TRUE, 12, TRUE, 34),
          VendorReply(TRUE, 12, FALSE, 0), VendorReply(FALSE, 0, TRUE, 34),
          VendorReply(TRUE, 0, TRUE, 0)}

\* The provider field of the LLMResponse each class builds.
ProviderLabel ==
    ("AnthropicProvider" :> "anthropic") @@ ("OpenAIProvider" :> "openai") @@
    ("GroqProvider" :> "groq") @@ ("OllamaProvider" :> "ollama") @@
    ("LMStudioProvider" :> "lmstudio")

Usage(tin, tout) == << <<"input_tokens", tin>>, <<"output_tokens", tout>> >>

Generated(class, usage) ==
    [raised |-> "none", provider |-> ProviderLabel[class], usage |-> usage,
     latency_ms |-> 0]

GenerateRaised(exc) ==
    [raised |-> exc, provider |-> Null, usage |-> <<>>, latency_ms |-> 0]

\* OllamaProvider.generate: data.get("prompt_eval_count", 0) and
\* data.get("eval_count", 0).
OllamaUsage(v) ==
    Generated("OllamaProvider",
              Usage(IF v.has_in THEN v.tin ELSE 0, IF v.has_out THEN v.tout ELSE 0))

\* LMStudioProvider.generate: usage stays {} unless response.usage is there
\* and truthy; then getattr(response.usage, ..., 0).
LMStudioUsage(v) ==
    Generated("LMStudioProvider",
              IF v.has_usage
              THEN Usage(IF v.has_in THEN v.tin ELSE 0, IF v.has_out THEN v.tout ELSE 0)
              ELSE <<>>)

\* Anthropic, OpenAI and Groq generate: the attributes of response.usage are
\* read without a test.
CloudUsage(class, v) ==
    IF v.has_usage /\ v.has_in /\ v.has_out
    THEN Generated(class, Usage(v.tin, v.tout))
    ELSE GenerateRaised("AttributeError")

\* generate(): the handlers log and re-raise.
generate(class, v) ==
    IF v.kind = "error" THEN GenerateRaised(v.error)
    ELSE CASE class = "OllamaProvider" -> OllamaUsage(v)
           [] class = "LMStudioProvider" -> LMStudioUsage(v)
           [] OTHER -> CloudUsage(class, v)

\* How long the phases of a generate call take, in milliseconds: the
\* statements before the request (temp, tokens), the request itself, and
\* the decoding of the reply (raise_for_status, response.json()).
Times == [setup : {0, 1}, network : {40}, decode : {0, 3}]

\* time.time() when start_time is taken: at the entry of generate, the
\* call having started at 0.
StartTime(class, t) == 0

\* time.time() when latency is computed: after the request returned, and
\* for Ollama after raise_for_status() and response.json() as well.
StopTime(class, t) ==
    IF class = "OllamaProvider" THEN t.setup + t.network + t.decode
    ELSE t.setup + t.network

\* latency = (time.time() - start_time) * 1000, in milliseconds.
Latency(class, t) == StopTime(class, t) - StartTime(class, t)

Generate ==
    /\ fpc = "created"
    /\ \E v \in VendorAnswers, t \in Times :
          /\ gvendor' = v
          /\ gtimes' = t
          /\ gresult' = LET r == generate(provider.family, v)
                        IN  IF r.raised = "none"
                            THEN [r EXCEPT !.latency_ms = Latency(provider.family, t)]
                            ELSE r
    /\ UNCHANGED <<config, given_config, fpc, provider, ferror, vprobe, vresult,
                   mlisting, mresult>>
    /\ UNCHANGED <<retryVars, parseVars, decideVars, detectVars, batchVars,
                   serviceVars>>

ProviderNext ==
    \/ CreateProviderUnknown
    \/ CreateProviderReturns
    \/ CreateProviderImportFails
    \/ ValidateConnection
    \/ GetAvailableModels
    \/ Generate

SpecProvider == ProviderInit /\ [][ProviderNext]_vars

\* The registered names, aliases and canonical, with the provider class and
\* the default model of the family each denotes.
RegisteredNames ==
    {"anthropic", "claude", "openai", "gpt", "ollama", "groq", "lmstudio",
     "lm-studio"}

FamilyDenoted(name) ==
    CASE name \in {"anthropic", "claude"} -> "AnthropicProvider"
      [] name \in {"openai", "gpt"} -> "OpenAIProvider"
      [] name = "ollama" -> "OllamaProvider"
      [] name = "groq" -> "GroqProvider"
      [] name \in {"lmstudio", "lm-studio"} -> "LMStudioProvider"

FamilyDefault(class) ==
    CASE class = "AnthropicProvider" -> "claude-sonnet-4-20250514"
      [] class = "OpenAIProvider" -> "gpt-4o-mini"
      [] class = "OllamaProvider" -> "llama3.1"
      [] class = "GroqProvider" -> "llama-3.1-70b-versatile"
      [] class = "LMStudioProvider" -> "local-model"

\* C12: for each of the eight registered names, create_provider with an
\* empty model does not refuse the name, the provider it constructs is of
\* the family the name denotes, and config.model is then that family's
\* default model, never the empty string.
C12_DefaultModelPerFamily ==
    (/\ fpc \notin {"off", "ready"}
     /\ given_config.provider \in RegisteredNames
     /\ given_config.model = "")
    => /\ ferror # "ValueError"
       /\ fpc = "created" => provider.family = FamilyDenoted(given_config.provider)
       /\ config.model = FamilyDefault(FamilyDenoted(given_config.provider))
       /\ config.model # ""

C12_Witness ==
    /\ fpc = "created"
    /\ given_config.provider = "claude" /\ given_config.model = ""
    /\ provider.family = "AnthropicProvider"
    /\ config.model = "claude-sonnet-4-20250514"

\* C13: create_provider raises ValueError exactly when the lowercased name
\* is none of the registered names; then no provider is constructed and the
\* config is as the caller passed it.
C13_ValueErrorIffUnregistered ==
    fpc \notin {"off", "ready"}
    => /\ ferror = "ValueError" <=> Lower(given_config.provider) \notin RegisteredNames
       /\ ferror = "ValueError" => (provider = NoProvider /\ config = given_config)

C13_Witness ==
    /\ fpc = "raised" /\ ferror = "ValueError"
    /\ given_config.provider = "gemini" /\ given_config.model = ""
    /\ provider = NoProvider /\ config = given_config

\* The probe of validate_connection failed: the request raised, the status
\* was not 200, the body was not JSON, Ollama does not list the configured
\* model, or LM Studio has no model loaded.
ProbeFailed ==
    \/ vprobe.kind \notin {"none", "ok"}
    \/ /\ vprobe.kind = "ok" /\ provider.family = "OllamaProvider"
       /\ \A i \in 1..Len(vprobe.names) :
              SplitBase(vprobe.names[i]) # SplitBase(config.model)
    \/ /\ vprobe.kind = "ok" /\ provider.family = "LMStudioProvider"
       /\ vprobe.names = <<>>

\* C16: validate_connection of each of the five provider classes never
\* raises, and returns false whenever its probe failed (connection error,
\* status other than 200, malformed body, missing model).
C16_ValidateNeverRaises ==
    vprobe # NoProbe
    => /\ vresult.raised = "none"
       /\ ProbeFailed => vresult.value = FALSE

C16_Witness ==
    /\ provider.family = "OllamaProvider"
    /\ vprobe = Probe("bad_body", <<>>)
    /\ vresult = [raised |-> "none", value |-> FALSE]

\* C17: get_available_models of each of the five provider classes never
\* raises, and when the live listing fails (an exception, or for Ollama a
\* status other than 200) it returns the class's static fallback list, the
\* nine COMMON_MODELS for Ollama and ["local-model"] for LM Studio, which is
\* not empty.
C17_StaticFallbackOnFailure ==
    mresult # NoModels
    => /\ mresult.raised = "none"
       /\ mlisting.kind \notin {"none", "ok"}
          => /\ mresult.names # <<>>
             /\ provider.family = "OllamaProvider"
                => mresult.names = <<"llama3.1", "llama3.1:70b", "llama3.2",
                                     "mistral", "mixtral", "codellama", "phi3",
                                     "gemma2", "qwen2.5">>
             /\ provider.family = "LMStudioProvider"
                => mresult.names = <<"local-model">>

C17_Witness ==
    /\ provider.family = "OllamaProvider"
    /\ mlisting = Probe("status_500", <<>>)
    /\ mresult.raised = "none"
    /\ Len(mresult.names) = 9 /\ mresult.names[1] = "llama3.1"

\* The keys of a dictionary.
KeysOf(dict) == {dict[i][1] : i \in 1..Len(dict)}

\* C19: generate does not fail on a vendor reply because usage data is
\* missing from it, and the usage of every LLMResponse it returns has both
\* keys input_tokens and output_tokens, a count the vendor left out being 0.
C19_UsageAlwaysBothKeys ==
    (gresult # NoGenerated /\ gvendor.kind = "reply")
    => /\ gresult.raised = "none"
       /\ KeysOf(gresult.usage) = {"input_tokens", "output_tokens"}
       /\ \A i \in 1..Len(gresult.usage) :
             /\ (gresult.usage[i][1] = "input_tokens" /\ ~gvendor.has_in)
                => gresult.usage[i][2] = 0
             /\ (gresult.usage[i][1] = "output_tokens" /\ ~gvendor.has_out)
                => gresult.usage[i][2] = 0

\* C24: no operation of the factory or of a provider changes a field of
\* the ProviderConfig the caller passed to create_provider.
C24_ConfigNeverModified == config = given_config

\* C25: the latency a generate reports is the time the request took: the
\* clock starts right before the request and stops as soon as it returns,
\* so neither the statements before it nor the decoding of the reply count.
C25_LatencyIsNetworkTime ==
    (gresult # NoGenerated /\ gresult.raised = "none")
    => gresult.latency_ms = gtimes.network

(***************************************************************************)
(* SpecDetect: detect_local_providers (providers/factory.py).              *)
(***************************************************************************)
\* What a local endpoint answers to requests.get(url, timeout=2): an
\* exception of the request, or a response with its status code.
Answer(raised, status_code) == [raised |-> raised, status_code |-> status_code]

Answers ==
    {Answer("ConnectionError", 0), Answer("Timeout", 0)}
    \cup {Answer("none", c) : c \in {200, 204, 404, 500}}

OllamaTagsUrl == "http://localhost:11434/api/tags"
LMStudioModelsUrl == "http://localhost:1234/v1/models"

DetectInit ==
    /\ detpc = "ollama"
    /\ probes \in [ollama : Answers, lmstudio : Answers]
    /\ probed = <<>> /\ available = <<>> /\ detresult = NoDetected
    /\ RetryIdle /\ ParseIdle /\ DecideIdle /\ ProviderIdle /\ BatchIdle /\ ServiceIdle

\* A variant of DetectCatches: timeouts only.
DetectCatchesTimeout(exc) == exc = "Timeout"

\* The handler of each of the two try statements: except Exception.
DetectCatches(exc) == TRUE

\* response.status_code == 200
IsUp(answer) == answer.status_code = 200

\* One of the two try statements: available[key] is set from the status,
\* or to False by the handler; an exception the handler does not catch
\* leaves detect_local_providers.
Check(key, url, next) ==
    LET answer == probes[key]
    IN  /\ probed' = Append(probed, url)
        /\ IF answer.raised = "none"
           THEN /\ available' = Append(available, <<key, IsUp(answer)>>)
                /\ detpc' = next
                /\ UNCHANGED detresult
           ELSE IF DetectCatches(answer.raised)
           THEN /\ available' = Append(available, <<key, FALSE>>)
                /\ detpc' = next
                /\ UNCHANGED detresult
           ELSE /\ detpc' = "raised"
                /\ detresult' = [raised |-> answer.raised, value |-> <<>>]
                /\ UNCHANGED available
        /\ UNCHANGED probes
        /\ UNCHANGED <<retryVars, parseVars, decideVars, providerVars, batchVars,
                       serviceVars>>

\* # Check Ollama
CheckOllama ==
    /\ detpc = "ollama"
    /\ Check("ollama", OllamaTagsUrl, "lmstudio")

\* # Check LM Studio
CheckLMStudio ==
    /\ detpc = "lmstudio"
    /\ Check("lmstudio", LMStudioModelsUrl, "returning")

\* return available
DetectReturn ==
    /\ detpc = "returning"
    /\ detpc' = "returned"
    /\ detresult' = [raised |-> "none", value |-> available]
    /\ UNCHANGED <<probes, probed, available>>
    /\ UNCHANGED <<retryVars, parseVars, decideVars, providerVars, batchVars,
                   serviceVars>>

DetectNext == CheckOllama \/ CheckLMStudio \/ DetectReturn

SpecDetect == DetectInit /\ [][DetectNext]_vars

\* The value the returned mapping has for a key.
Detected(key) ==
    LET i == CHOOSE i \in 1..Len(detresult.value) : detresult.value[i][1] = key
    IN  detresult.value[i][2]

\* C18: detect_local_providers never raises; the mapping it returns has
\* exactly the keys ollama and lmstudio, each true exactly when that
\* endpoint answered with status 200, and both endpoints were requested
\* whatever the first request met.
C18_DetectBothIndependently ==
    /\ detpc # "raised"
    /\ detpc = "returned"
       => /\ detresult.raised = "none"
          /\ KeysOf(detresult.value) = {"ollama", "lmstudio"}
          /\ Len(detresult.value) = 2
          /\ Detected("ollama") =
                (probes.ollama.raised = "none" /\ probes.ollama.status_code = 200)
          /\ Detected("lmstudio") =
                (probes.lmstudio.raised = "none" /\ probes.lmstudio.status_code = 200)
          /\ probed = <<"http://localhost:11434/api/tags",
                        "http://localhost:1234/v1/models">>

C18_Witness ==
    /\ detpc = "returned"
    /\ probes.ollama = Answer("ConnectionError", 0)
    /\ probes.lmstudio = Answer("none", 200)
    /\ detresult.value = << <<"ollama", FALSE>>, <<"lmstudio", TRUE>> >>

(***************************************************************************)
(* SpecBatch: make_batch_decisions (main.py), the handler of /decide/batch.*)
(***************************************************************************)
MaxBatch == 3

\* The factions that have an agent, and the faction ids of the requests.
FACTION_AGENTS == {"Davion", "Liao"}
FactionIds == FACTION_AGENTS \cup {"Pirates"}

ClientAnswers ==
    { TextAnswer(<<LB, JStr("action"), COLON, JStr("raid"), RB>>),
      TextAnswer(<<WORD, LB, JStr("action"), COLON, JStr("attack"), COMMA,
                   JStr("priority"), COLON, JInt(8), COMMA,
                   JStr("target"), COLON, JStr("Terra"), COMMA,
                   JStr("reasoning"), COLON, JStr("test"), RB>>),
      TextAnswer(<<WORD>>),
      ErrorAnswer("Timeout") }

\* A request of the batch: its factionId, and what the client answers when
\* the agent of that faction decides it.
BatchRequests ==
    {[factionId |-> f, answer |-> a] : f \in FACTION_AGENTS, a \in ClientAnswers}
    \cup {[factionId |-> f, answer |-> NoAnswer] : f \in FactionIds \ FACTION_AGENTS}

BatchInit ==
    /\ bpc = "looping"
    /\ batch \in UNION {[1..n -> BatchRequests] : n \in 0..MaxBatch}
    /\ decisions = <<>> /\ bcalls = <<>> /\ bresponse = NoHttp
    /\ RetryIdle /\ ParseIdle /\ DecideIdle /\ ProviderIdle /\ DetectIdle /\ ServiceIdle

\* agent.make_decision(req) as one call: the parsed decision, or the
\* decision of the handler for the exception of the client or of the parser.
make_decision(answer) ==
    LET handler(e) == IF DecideCatches(e) THEN AgentFallback(e)
                      ELSE [raised |-> e, decision |-> NoDecision]
    IN  IF answer.kind = "error" THEN handler(answer.error)
        ELSE LET r == ParseDecision(answer.text)
             IN  IF r.raised = "none" THEN r ELSE handler(r.raised)

\* A variant of UnknownDecision: the defensive fallback of the agent.
UnknownDecisionDefend(factionId) ==
    AgentFallback("Unknown faction: " \o factionId).decision

\* The decision appended for a factionId that has no agent.
UnknownDecision(factionId) ==
    DecisionResponse(JStr("none"), JInt(1), JNull,
                     JStr("Unknown faction: " \o factionId)).decision

\* A variant of AddDecision: the decision is put in front.
AddDecisionFirst(list, decision) == <<decision>> \o list

\* decisions.append(decision)
AddDecision(list, decision) == Append(list, decision)

\* The position of the for loop: the requests before it have their decision.
LoopIndex == Len(decisions) + 1

\* One turn of the for loop for a factionId without agent: the default
\* decision is appended, and the loop continues.
DefaultForUnknown ==
    /\ bpc = "looping"
    /\ LoopIndex <= Len(batch)
    /\ batch[LoopIndex].factionId \notin FACTION_AGENTS
    /\ decisions' = AddDecision(decisions, UnknownDecision(batch[LoopIndex].factionId))
    /\ UNCHANGED <<bpc, batch, bcalls, bresponse>>
    /\ UNCHANGED <<retryVars, parseVars, decideVars, providerVars, detectVars,
                   serviceVars>>

\* One turn of the for loop for a factionId with an agent: the agent's
\* decision is appended; an exception of make_decision reaches the handler
\* of the route, which answers 500.
DecideKnown ==
    /\ bpc = "looping"
    /\ LoopIndex <= Len(batch)
    /\ batch[LoopIndex].factionId \in FACTION_AGENTS
    /\ bcalls' = Append(bcalls, LoopIndex)
    /\ LET r == make_decision(batch[LoopIndex].answer)
       IN  IF r.raised = "none"
           THEN /\ decisions' = AddDecision(decisions, r.decision)
                /\ UNCHANGED <<bpc, bresponse>>
           ELSE /\ bpc' = "returned"
                /\ bresponse' = [status |-> 500, decisions |-> <<>>]
                /\ UNCHANGED decisions
    /\ UNCHANGED batch
    /\ UNCHANGED <<retryVars, parseVars, decideVars, providerVars, detectVars,
                   serviceVars>>

\* After the loop: jsonify(BatchDecisionResponse(decisions=decisions)).
BatchReturn ==
    /\ bpc = "looping"
    /\ LoopIndex > Len(batch)
    /\ bpc' = "returned"
    /\ bresponse' = [status |-> 200, decisions |-> decisions]
    /\ UNCHANGED <<batch, decisions, bcalls>>
    /\ UNCHANGED <<retryVars, parseVars, decideVars, providerVars, detectVars,
                   serviceVars>>

BatchNext == DefaultForUnknown \/ DecideKnown \/ BatchReturn

SpecBatch == BatchInit /\ [][BatchNext]_vars

\* The decision of one request taken alone: the parsed decision of the text
\* the client returned, the defend fallback when the client raised.
DecisionFor(req) ==
    IF req.answer.kind = "error"
    THEN [action |-> "defend", priority |-> 5, target |-> <<>>,
          reasoning |-> "Fallback decision due to error: " \o req.answer.error]
    ELSE ParseDecision(req.answer.text).decision

\* C14: the batch answers with as many decisions as it has requests, the
\* i-th being the decision of the i-th request taken alone, also when the
\* client fails for some of the requests; while the batch is being decided
\* the decisions so far are those of the first requests, in order.
C14_BatchOrderPreserved ==
    /\ Len(decisions) <= Len(batch)
    /\ \A i \in 1..Len(decisions) :
          batch[i].factionId \in FACTION_AGENTS => decisions[i] = DecisionFor(batch[i])
    /\ bpc = "returned"
       => /\ bresponse.status = 200
          /\ bresponse.decisions = decisions
          /\ Len(bresponse.decisions) = Len(batch)

C14_Witness ==
    /\ bpc = "returned"
    /\ Len(batch) = 3
    /\ batch[1] = [factionId |-> "Davion",
                   answer |-> TextAnswer(<<LB, JStr("action"), COLON, JStr("raid"), RB>>)]
    /\ batch[2] = [factionId |-> "Liao", answer |-> ErrorAnswer("Timeout")]
    /\ batch[3].factionId = "Davion" /\ batch[3].answer.kind = "text"
    /\ bresponse.status = 200
    /\ Len(bresponse.decisions) = 3
    /\ bresponse.decisions[1].action = "raid"
    /\ bresponse.decisions[2].action = "defend"
    /\ bresponse.decisions[2].reasoning = "Fallback decision due to error: Timeout"
    /\ bresponse.decisions[3].action = "attack"
    /\ bresponse.decisions[3].target = <<"Terra">>

\* C15: a request whose factionId has no agent does not abort the batch: its
\* slot holds the decision with action "none" and no target, make_decision
\* is not called for it, it is called once for each other request, in
\* order, and the batch answers with one decision per request.
C15_UnknownFactionSlot ==
    /\ \A i \in 1..Len(decisions) :
          batch[i].factionId \notin FACTION_AGENTS
          => /\ decisions[i].action = "none"
             /\ decisions[i].target = <<>>
             /\ decisions[i].reasoning = "Unknown faction: " \o batch[i].factionId
             /\ \A j \in 1..Len(bcalls) : bcalls[j] # i
    /\ bcalls = SelectSeq([i \in 1..Len(decisions) |-> i],
                          LAMBDA i : batch[i].factionId \in FACTION_AGENTS)
    /\ bpc = "returned"
       => (bresponse.status = 200 /\ Len(bresponse.decisions) = Len(batch))

C15_Witness ==
    /\ bpc = "returned"
    /\ Len(batch) = 3
    /\ batch[1].factionId = "Davion" /\ batch[1].answer.kind = "text"
    /\ batch[2].factionId = "Pirates"
    /\ batch[3].factionId = "Liao" /\ batch[3].answer.kind = "text"
    /\ bcalls = <<1, 3>>
    /\ bresponse.status = 200
    /\ bresponse.decisions[2] = [action |-> "none", priority |-> 1, target |-> <<>>,
                                 reasoning |-> "Unknown faction: Pirates"]
    /\ bresponse.decisions[1].action \in {"raid", "attack", "defend"}
    /\ bresponse.decisions[3].action \in {"raid", "attack", "defend"}

(***************************************************************************)
(* SpecConcurrent: calls in flight at the same time.  The Flask server     *)
(* handles each request in a thread of its own; a call is either a         *)
(* FactionAgent.make_decision or an LLMProvider.generate_with_retry, and   *)
(* its state is made of the locals of that call.  The agents' attributes   *)
(* are assigned in __init__ only.                                          *)
(***************************************************************************)
CallIds == {1, 2}

\* What generate does at each attempt of a generate_with_retry call.
RetryPlans ==
    { <<"ok">>, <<"Timeout", "ok">>, <<"Timeout", "RateLimited", "ok">>,
      <<"Timeout", "Timeout", "Timeout">> }

\* A call at its start: the locals of make_decision(request) on the agent
\* of `faction`, or of generate_with_retry.
DecideCall(faction, answer) ==
    [kind |-> "decide", faction |-> faction, answer |-> answer, plan |-> <<>>,
     pc |-> "prompting", message |-> NoAnswer, attempt |-> 0, slept |-> <<>>,
     result |-> NoDecision, returned |-> "<pending>", overlapped |-> FALSE]

RetryCall(plan) ==
    [kind |-> "retry", faction |-> Null, answer |-> NoAnswer, plan |-> plan,
     pc |-> "calling", message |-> NoAnswer, attempt |-> 0, slept |-> <<>>,
     result |-> NoDecision, returned |-> "<pending>", overlapped |-> FALSE]

NewCalls ==
    {DecideCall(f, a) : f \in FACTION_AGENTS, a \in ClientAnswers}
    \cup {RetryCall(p) : p \in RetryPlans}

ConcInit ==
    /\ calls \in [CallIds -> NewCalls]
    /\ delivered = <<>>
    /\ RetryIdle /\ ParseIdle /\ DecideIdle /\ ProviderIdle /\ DetectIdle /\ BatchIdle
    /\ ContextIdle /\ RouteIdle /\ RotationIdle /\ LoggerIdle

\* The call c is a call of this kind at this position.
At(c, kind, pc) == calls[c].kind = kind /\ calls[c].pc = pc

\* Another call is inside time.sleep.
OtherSleeping(c) == \E d \in CallIds \ {c} : calls[d].pc = "sleeping"

\* The call c goes on with the locals `locals`.
Goes(c, locals) ==
    /\ calls' = [calls EXCEPT ![c] = [locals EXCEPT !.overlapped = @ \/ OtherSleeping(c)]]
    /\ UNCHANGED <<retryVars, parseVars, decideVars, providerVars, detectVars,
                   batchVars, contextVars, routeVars, rotationVars, loggerVars>>

\* make_decision returns the handler's decision for the exception e.
Handled(locals, e) ==
    [locals EXCEPT !.pc = "done", !.result = AgentFallback(e).decision,
                   !.returned = "DecisionResponse"]

\* _build_context(request) and _build_system_prompt().
CallBuildsPrompts(c) ==
    /\ At(c, "decide", "prompting")
    /\ Goes(c, [calls[c] EXCEPT !.pc = "generating"])
    /\ UNCHANGED delivered

\* message = self.client.messages.create(...): the reply is bound to the
\* local `message`, or the exception reaches the handler.
CallCreates(c) ==
    /\ At(c, "decide", "generating")
    /\ IF calls[c].answer.kind = "error"
       THEN /\ Goes(c, Handled(calls[c], calls[c].answer.error))
            /\ UNCHANGED delivered
       ELSE /\ Goes(c, [calls[c] EXCEPT !.pc = "parsing", !.message = calls[c].answer])
            /\ delivered' = Append(delivered, calls[c].answer)

\* A variant of MessageOf: the reply the client gave last, to any call.
MessageOfLatest(c) == delivered[Len(delivered)]

\* The reply the call parses: its local `message`.
MessageOf(c) == calls[c].message

\* response_text = message.content[0].text, _parse_decision, return.
CallParses(c) ==
    /\ At(c, "decide", "parsing")
    /\ LET r == ParseDecision(MessageOf(c).text)
       IN  IF r.raised = "none"
           THEN Goes(c, [calls[c] EXCEPT !.pc = "done", !.result = r.decision,
                                         !.returned = "DecisionResponse"])
           ELSE Goes(c, Handled(calls[c], r.raised))
    /\ UNCHANGED delivered

\* One turn of the loop of generate_with_retry, with retry_attempts at its
\* default: return self.generate(...), or the handler, or return None after
\* the loop.
CallGenerates(c) ==
    /\ At(c, "retry", "calling")
    /\ LET a == calls[c].attempt
       IN  IF a >= RetryAttemptsDefault
           THEN Goes(c, [calls[c] EXCEPT !.pc = "done", !.returned = "None"])
           ELSE IF calls[c].plan[a + 1] = "ok"
           THEN Goes(c, [calls[c] EXCEPT !.pc = "done", !.returned = "LLMResponse"])
           ELSE IF a < RetryAttemptsDefault - 1
           THEN Goes(c, [calls[c] EXCEPT !.pc = "sleeping"])
           ELSE Goes(c, [calls[c] EXCEPT !.attempt = a + 1])
    /\ UNCHANGED delivered

\* time.sleep(1 * (attempt + 1)) returns.
CallWakes(c) ==
    /\ At(c, "retry", "sleeping")
    /\ Goes(c, [calls[c] EXCEPT !.pc = "calling", !.attempt = @ + 1,
                                !.slept = Append(@, Backoff(calls[c].attempt))])
    /\ UNCHANGED delivered

\* The call c has a step to take: the guards of the steps above.  None
\* mentions a lock or the position of another call.
Runnable(c) ==
    \/ At(c, "decide", "prompting")
    \/ At(c, "decide", "generating")
    \/ At(c, "decide", "parsing")
    \/ At(c, "retry", "calling")
    \/ At(c, "retry", "sleeping")

ConcNext ==
    \/ \E c \in CallIds : CallBuildsPrompts(c)
    \/ \E c \in CallIds : CallCreates(c)
    \/ \E c \in CallIds : CallParses(c)
    \/ \E c \in CallIds : CallGenerates(c)
    \/ \E c \in CallIds : CallWakes(c)

SpecConcurrent == ConcInit /\ [][ConcNext]_vars

\* What a generate_with_retry call with this plan does when run alone.
FirstOk(plan) ==
    IF \E i \in 1..Len(plan) : plan[i] = "ok"
    THEN CHOOSE i \in 1..Len(plan) :
            plan[i] = "ok" /\ \A j \in 1..(i - 1) : plan[j] # "ok"
    ELSE 0

MaxEvents == 7

\* The neighbors of the requests: relationship and relativePower around the
\* thresholds of the labels.
Neighbors ==
    [relationship : {-5, 0, 1, 50, 51},
     relativePower : {79, 80, 100, 120, 121},
     atWar : BOOLEAN]

\* The events that happened, oldest first.
EventLog(n) == [i \in 1..n |-> i]

ContextInit ==
    /\ request \in [neighbors : UNION {[1..n -> Neighbors] : n \in 0..2},
                    recentEvents : {EventLog(n) : n \in 0..MaxEvents}]
    /\ ctxpc = "ready" /\ context = NoContext
    /\ RetryIdle /\ ParseIdle /\ DecideIdle /\ ProviderIdle /\ DetectIdle /\ BatchIdle
    /\ ConcIdle /\ RouteIdle /\ RotationIdle /\ LoggerIdle

\* A variant of RelText: 50 is already ALLIED.
RelTextInclusive(relationship) ==
    IF relationship >= 50 THEN "ALLIED"
    ELSE IF relationship > 0 THEN "FRIENDLY" ELSE "HOSTILE"

\* rel_text
RelText(relationship) ==
    IF relationship > 50 THEN "ALLIED"
    ELSE IF relationship > 0 THEN "FRIENDLY" ELSE "HOSTILE"

\* power_text
PowerText(relativePower) ==
    IF relativePower > 120 THEN "stronger"
    ELSE IF relativePower < 80 THEN "weaker" ELSE "comparable"

\* status
Status(atWar) == IF atWar THEN "AT WAR" ELSE ""

\* The line of neighbors_text for the neighbor n: its labels in the order
\* of the f-string.
NeighborLine(n) ==
    [rel_text |-> RelText(n.relationship), relationship |-> n.relationship,
     power_text |-> PowerText(n.relativePower), status |-> Status(n.atWar)]

\* The slice request.recentEvents[:5].
EventsLimit == 5
EventsListed(events) ==
    SubSeq(events, 1, IF Len(events) < EventsLimit THEN Len(events) ELSE EventsLimit)

\* events_text: one line per listed event, or "None".
EventsText(events) ==
    IF EventsListed(events) = <<>> THEN <<[event |-> 0, text |-> "None"]>>
    ELSE [i \in 1..Len(EventsListed(events)) |->
             [event |-> EventsListed(events)[i], text |-> "- event"]]

\* _build_context(request)
BuildContext ==
    /\ ctxpc = "ready"
    /\ context' = [neighbors_text |->
                      [i \in 1..Len(request.neighbors) |-> NeighborLine(request.neighbors[i])],
                   events_text |-> EventsText(request.recentEvents)]
    /\ ctxpc' = "built"
    /\ UNCHANGED request
    /\ UNCHANGED <<retryVars, parseVars, decideVars, providerVars, detectVars,
                   batchVars, concVars, routeVars, rotationVars, loggerVars>>

ContextNext == BuildContext

SpecContext == ContextInit /\ [][ContextNext]_vars

\* The events the context lists.
ListedEvents == {context.events_text[i].event : i \in 1..Len(context.events_text)} \ {0}

\* C22: the context lists at most 5 events, and when recentEvents, oldest
\* first, has more than 5 entries, the events listed are its last 5.
C22_MostRecentFiveEvents ==
    ctxpc = "built"
    => /\ Cardinality(ListedEvents) <= 5
       /\ Len(request.recentEvents) > 5
          => ListedEvents = {request.recentEvents[i] :
                          i \in (Len(request.recentEvents) - 4)..Len(request.recentEvents)}

\* C23: every neighbor has one line, with one relationship label and one
\* power label: ALLIED above 50, FRIENDLY from 1 to 50, HOSTILE at 0 and
\* below; stronger above 1.2, weaker below 0.8, comparable from 0.8 to 1.2;
\* and the line carries AT WAR exactly when atWar is true.
C23_NeighborLabels ==
    ctxpc = "built"
    => /\ Len(context.neighbors_text) = Len(request.neighbors)
       /\ \A i \in 1..Len(request.neighbors) :
             LET n == request.neighbors[i]
                 line == context.neighbors_text[i]
             IN  /\ line.rel_text = "ALLIED" <=> n.relationship > 50
                 /\ line.rel_text = "FRIENDLY"
                       <=> (0 < n.relationship /\ n.relationship <= 50)
                 /\ line.rel_text = "HOSTILE" <=> n.relationship <= 0
                 /\ line.power_text = "stronger" <=> n.relativePower > 120
                 /\ line.power_text = "weaker" <=> n.relativePower < 80
                 /\ line.power_text = "comparable"
                       <=> (80 <= n.relativePower /\ n.relativePower <= 120)
                 /\ line.status = "AT WAR" <=> n.atWar
                 /\ line.status \in {"AT WAR", ""}

C23_Witness ==
    /\ ctxpc = "built"
    /\ Len(request.neighbors) = 2
    /\ request.neighbors[1] = [relationship |-> 50, relativePower |-> 120, atWar |-> TRUE]
    /\ request.neighbors[2] = [relationship |-> 0, relativePower |-> 80, atWar |-> FALSE]
    /\ context.neighbors_text[1].rel_text = "FRIENDLY"
    /\ context.neighbors_text[1].power_text = "comparable"
    /\ context.neighbors_text[1].status = "AT WAR"
    /\ context.neighbors_text[2].rel_text = "HOSTILE"
    /\ context.neighbors_text[2].power_text = "comparable"
    /\ context.neighbors_text[2].status = ""

(***************************************************************************)
(* SpecRoute: make_decision (main.py), the handler of /decide.             *)
(***************************************************************************)
\* What the client answers to the agent of a request that reaches one.
RouteAnswers ==
    {TextAnswer(b) : b \in OtherBodies} \cup ClientAnswers
    \cup {ErrorAnswer(e) : e \in ErrorKinds}

\* The payloads posted: a valid DecisionRequest for a faction, with what the
\* client answers if its agent is called, or a payload that DecisionRequest
\* rejects.
Payloads ==
    {[payload |-> "valid", factionId |-> f, answer |-> a] :
        f \in FACTION_AGENTS, a \in RouteAnswers}
    \cup {[payload |-> "valid", factionId |-> f, answer |-> NoAnswer] :
            f \in FactionIds \ FACTION_AGENTS}
    \cup {[payload |-> "invalid", factionId |-> "", answer |-> NoAnswer]}

RouteInit ==
    /\ hpc = "received"
    /\ hrequest \in Payloads
    /\ hcalls = 0 /\ hresponse = NoReturn
    /\ RetryIdle /\ ParseIdle /\ DecideIdle /\ ProviderIdle /\ DetectIdle /\ BatchIdle
    /\ ConcIdle /\ ContextIdle /\ RotationIdle /\ LoggerIdle

Return(response) ==
    /\ hpc' = "returned"
    /\ hresponse' = response
    /\ UNCHANGED <<retryVars, parseVars, decideVars, providerVars, detectVars,
                   batchVars, concVars, contextVars, rotationVars,
                           loggerVars>>

\* return jsonify({"error": str(e)}), 500
ServerError == [status |-> 500, body |-> "error", decision |-> NoDecision]

\* req = DecisionRequest(**data): a ValidationError reaches the handler of
\* the route.
ValidateRequest ==
    /\ hpc = "received"
    /\ IF hrequest.payload = "valid"
       THEN /\ hpc' = "looking_up"
            /\ UNCHANGED hresponse
            /\ UNCHANGED <<retryVars, parseVars, decideVars, providerVars,
                           detectVars, batchVars, concVars, contextVars, rotationVars,
                           loggerVars>>
       ELSE Return(ServerError)
    /\ UNCHANGED <<hrequest, hcalls>>

\* A variant of UnknownFactionResponse: the default decision of the batch
\* route.
UnknownFactionDefault(factionId) ==
    [status |-> 200, body |-> "decision", decision |-> UnknownDecision(factionId)]

\* return (jsonify({"error": f"Unknown faction: {req.factionId}"}), 400)
UnknownFactionResponse(factionId) ==
    [status |-> 400, body |-> "error", decision |-> NoDecision]

\* if req.factionId not in FACTION_AGENTS: the error is returned.
RejectUnknown ==
    /\ hpc = "looking_up"
    /\ hrequest.factionId \notin FACTION_AGENTS
    /\ Return(UnknownFactionResponse(hrequest.factionId))
    /\ UNCHANGED <<hrequest, hcalls>>

\* agent = FACTION_AGENTS[req.factionId]; decision = agent.make_decision(req);
\* return jsonify(decision.model_dump())
DecideAndReturn ==
    /\ hpc = "looking_up"
    /\ hrequest.factionId \in FACTION_AGENTS
    /\ hcalls' = hcalls + 1
    /\ LET r == make_decision(hrequest.answer)
       IN  IF r.raised = "none"
           THEN Return([status |-> 200, body |-> "decision", decision |-> r.decision])
           ELSE Return(ServerError)
    /\ UNCHANGED hrequest

RouteNext == ValidateRequest \/ RejectUnknown \/ DecideAndReturn

SpecRoute == RouteInit /\ [][RouteNext]_vars

\* C28: for a factionId that has no agent, the handler of /decide returns
\* an error with status 400, no decision, and calls no agent; a request for
\* a faction that has an agent is answered with a decision.
C28_UnknownFactionRejected ==
    /\ (hrequest.payload = "valid" /\ hrequest.factionId \notin {"Davion", "Liao"})
       => /\ hcalls = 0
          /\ hpc = "returned"
             => /\ hresponse.status = 400
                /\ hresponse.body = "error"
                /\ hresponse.decision = NoDecision
    /\ (hpc = "returned" /\ hrequest.factionId \in {"Davion", "Liao"})
       => (hresponse.status = 200 /\ hresponse.body = "decision" /\ hcalls = 1)

C28_Witness ==
    /\ hpc = "returned"
    /\ hrequest = [payload |-> "valid", factionId |-> "Pirates", answer |-> NoAnswer]
    /\ hresponse = [status |-> 400, body |-> "error", decision |-> NoDecision]
    /\ hcalls = 0

(***************************************************************************)
(* SpecRotation: the log files of AIEmpiresLogger (utils/logger.py), over  *)
(* successive runs of the service.  A file of log_dir is its name, the     *)
(* second of the timestamp in aiempires-<timestamp>.log, and its mtime.    *)
(***************************************************************************)
MaxClock == 6

\* self._max_files = 5
max_files == 5

RotationInit ==
    /\ lpc = "off" /\ now = 0 /\ log_dir = {} /\ current_log_file = NoFile
    /\ RetryIdle /\ ParseIdle /\ DecideIdle /\ ProviderIdle /\ DetectIdle /\ BatchIdle
    /\ ConcIdle /\ ContextIdle /\ RouteIdle /\ LoggerIdle

RotationGoes ==
    UNCHANGED <<retryVars, parseVars, decideVars, providerVars, detectVars,
                batchVars, concVars, contextVars, routeVars, loggerVars>>

\* _rotate_log_files: the files sorted by mtime, newest first;
\* log_files[self._max_files:] are unlinked.  The order of files of equal
\* mtime is that of iterdir, which is not specified: every set of the
\* newest files the sort can put first is an outcome.
Rotated(dir) ==
    LET keep == IF Cardinality(dir) < max_files THEN Cardinality(dir)
                ELSE max_files
    IN  {kept \in SUBSET dir :
            /\ Cardinality(kept) = keep
            /\ \A k \in kept, r \in dir \ kept : k.mtime >= r.mtime}

\* _create_log_file: the name of the file of a session that starts at t.
CreateLogFile(t) == t

\* _write_to_file: open(self.current_log_file, 'a') creates the file when it
\* is missing, and the write sets its mtime.
WriteToFile(dir, name, t) ==
    {f \in dir : f.name # name} \cup {[name |-> name, mtime |-> t]}

\* __init__: _ensure_log_directory rotates the files, then the file of the
\* session is named, then the entry 'Logging session started' is written.
StartSession ==
    /\ lpc = "off"
    /\ \E kept \in Rotated(log_dir) :
         /\ current_log_file' = CreateLogFile(now)
         /\ log_dir' = WriteToFile(kept, CreateLogFile(now), now)
    /\ lpc' = "running"
    /\ UNCHANGED now
    /\ RotationGoes

\* _log of a later entry of the session.
LogEntry ==
    /\ lpc = "running"
    /\ log_dir' = WriteToFile(log_dir, current_log_file, now)
    /\ log_dir' # log_dir
    /\ UNCHANGED <<lpc, now, current_log_file>>
    /\ RotationGoes

\* The service stops.
StopSession ==
    /\ lpc = "running"
    /\ lpc' = "off"
    /\ current_log_file' = NoFile
    /\ UNCHANGED <<now, log_dir>>
    /\ RotationGoes

Tick ==
    /\ now < MaxClock
    /\ now' = now + 1
    /\ UNCHANGED <<lpc, log_dir, current_log_file>>
    /\ RotationGoes

RotationNext == StartSession \/ LogEntry \/ StopSession \/ Tick

SpecRotation == RotationInit /\ [][RotationNext]_vars

\* C26: once a logging session has started and written its first entry,
\* log_dir holds at most 5 files aiempires-*.log, the file of the session
\* included.
C26_AtMostFiveLogFiles ==
    lpc = "running" => Cardinality(log_dir) <= 5

\* What the code keeps: the five newest files of earlier sessions, and the
\* file of the session.
RotationKeepsFiveOlder ==
    lpc = "running"
    => /\ Cardinality(log_dir) <= max_files + 1
       /\ \E f \in log_dir : f.name = current_log_file

(***************************************************************************)
(* SpecLogger: enable, disable, set_level and the five logging methods of  *)
(* AIEmpiresLogger (utils/logger.py), and set_log_level (main.py), the     *)
(* handler of /api/logs/level.                                             *)
(***************************************************************************)
MaxWritten == 3

\* class LogLevel(IntEnum)
LogLevel ==
    "DEBUG" :> 0 @@ "INFO" :> 1 @@ "WARNING" :> 2 @@ "ERROR" :> 3
    @@ "CRITICAL" :> 4
LevelValues == {LogLevel[n] : n \in DOMAIN LogLevel}
INFO == LogLevel["INFO"]

Entry(lvl, message) == [level |-> lvl, message |-> message]

\* __init__ leaves logging enabled at INFO, console and file output on, and
\* has output 'Logging session started'.
LoggerInit ==
    /\ enabled = TRUE /\ level = INFO
    /\ written = <<Entry(INFO, "Logging session started")>>
    /\ lastcall = NoCall /\ lresponse = NoLevelResponse
    /\ RetryIdle /\ ParseIdle /\ DecideIdle /\ ProviderIdle /\ DetectIdle /\ BatchIdle
    /\ ConcIdle /\ ContextIdle /\ RouteIdle /\ RotationIdle

\* lresponse is the response of the call when the call is one of the
\* endpoint.
LoggerGoes ==
    /\ Len(written') <= MaxWritten
    /\ lastcall'.op # "set_log_level" => lresponse' = NoLevelResponse
    /\ UNCHANGED <<retryVars, parseVars, decideVars, providerVars, detectVars,
                   batchVars, concVars, contextVars, routeVars, rotationVars>>

\* A variant of Emits: the minimum level itself is ignored.
EmitsAbove(flag, minimum, lvl) == flag /\ lvl > minimum

\* _log: if not self._enabled or level < self._level: return
Emits(flag, minimum, lvl) == ~(~flag \/ lvl < minimum)

\* _log: the entry is built and goes to the console and to the file.
Log(flag, minimum, out, lvl, message) ==
    IF Emits(flag, minimum, lvl) THEN Append(out, Entry(lvl, message)) ELSE out

Called(op, body, lvl) ==
    [op |-> op, body |-> body, level |-> lvl, before |-> level]

\* enable: self._enabled = True; self.info('Logger', 'Logging enabled')
Enable ==
    /\ enabled' = TRUE
    /\ written' = Log(TRUE, level, written, INFO, "Logging enabled")
    /\ lastcall' = Called("enable", NoBody, INFO)
    /\ UNCHANGED level
    /\ LoggerGoes

\* disable: self.info('Logger', 'Logging disabled'); self._enabled = False
Disable ==
    /\ written' = Log(enabled, level, written, INFO, "Logging disabled")
    /\ enabled' = FALSE
    /\ lastcall' = Called("disable", NoBody, INFO)
    /\ UNCHANGED level
    /\ LoggerGoes

\* set_level: self._level = level; the level of the Python logger and of
\* its handlers follows; self.info('Logger', f'Log level set to ...')
set_level(flag, out, lvl) == Log(flag, lvl, out, INFO, "Log level set")

SetLevel ==
    \E lvl \in LevelValues :
        /\ level' = lvl
        /\ written' = set_level(enabled, written, lvl)
        /\ lastcall' = Called("set_level", NoBody, INFO)
        /\ UNCHANGED enabled
        /\ LoggerGoes

\* debug, info, warning, error, critical: self._log(LogLevel.X, ...)
LogCall ==
    \E lvl \in LevelValues :
        /\ written' = Log(enabled, level, written, lvl, "message")
        /\ lastcall' = Called("log", NoBody, lvl)
        /\ UNCHANGED <<enabled, level>>
        /\ LoggerGoes

\* The values of 'level' posted to /api/logs/level.
LevelNames ==
    {"DEBUG", "debug", "Info", "warning", "ERROR", "Critical", "TRACE",
     "verbose", "", "info "}
LevelBodies ==
    {[kind |-> "name", name |-> n] : n \in LevelNames}
    \cup {[kind |-> "missing", name |-> ""], [kind |-> "number", name |-> ""]}

\* A variant of Upper: the name as posted.
UpperAsGiven(name) == name

\* str.upper, for the names posted.
Upper(name) ==
    CASE name \in {"DEBUG", "debug"} -> "DEBUG"
      [] name = "Info" -> "INFO"
      [] name = "warning" -> "WARNING"
      [] name = "ERROR" -> "ERROR"
      [] name = "Critical" -> "CRITICAL"
      [] name = "TRACE" -> "TRACE"
      [] name = "verbose" -> "VERBOSE"
      [] name = "info " -> "INFO "
      [] OTHER -> name

\* set_log_level: level_name = body.get('level', 'INFO').upper(); a value
\* that is no string has no upper, and the AttributeError is not caught by
\* except KeyError; LogLevel[level_name] raises KeyError for a name that is
\* no member, and the error is returned; else logger.set_level(level).
SetLogLevel ==
    \E body \in LevelBodies :
        /\ lastcall' = Called("set_log_level", body, INFO)
        /\ IF body.kind = "number"
           THEN /\ lresponse' = [kind |-> "raised", name |-> "AttributeError"]
                /\ UNCHANGED <<level, written>>
           ELSE LET level_name ==
                        Upper(IF body.kind = "missing" THEN "INFO" ELSE body.name)
                IN  IF level_name \in DOMAIN LogLevel
                    THEN /\ level' = LogLevel[level_name]
                         /\ written' = set_level(enabled, written, LogLevel[level_name])
                         /\ lresponse' = [kind |-> "level", name |-> level_name]
                    ELSE /\ lresponse' = [kind |-> "error", name |-> level_name]
                         /\ UNCHANGED <<level, written>>
        /\ UNCHANGED enabled
        /\ LoggerGoes

LoggerNext == Enable \/ Disable \/ SetLevel \/ LogCall \/ SetLogLevel

SpecLogger == LoggerInit /\ [][LoggerNext]_vars

Grew == Len(written') = Len(written) + 1
Kept == written' = written

\* The call that a step is, read from lastcall'.
Did(op) == lastcall'.op = op

\* What every call does: written only grows, by at most the entry of the
\* call; a logging method outputs its entry exactly when logging is enabled
\* and its level is at or above the minimum level; nothing is output while
\* logging stays disabled; disable clears the flag after its notice.
LogRule ==
    /\ Grew \/ Kept
    /\ Grew => SubSeq(written', 1, Len(written)) = written
    /\ Did("log")
       => /\ Grew <=> (enabled /\ lastcall'.level >= level)
          /\ Grew => written'[Len(written')] = Entry(lastcall'.level, "message")
    /\ (~enabled /\ ~enabled') => Kept
    /\ Did("disable") => ~enabled'
    /\ (Did("disable") /\ Grew)
       => /\ enabled
          /\ written'[Len(written')] = Entry(1, "Logging disabled")
    /\ Did("enable") => (enabled' /\ (Grew <=> 1 >= level))
    /\ Did("set_level") => (Grew <=> (enabled /\ 1 >= level'))

\* C29, as stated: over any sequence of enable, disable, set_level and log
\* calls, a log call outputs an entry exactly when logging is enabled and the
\* level of the message is at or above the minimum level, nothing is output
\* between a disable and the next enable, and disable outputs the notice
\* 'Logging disabled' before output stops.
C29_NoticeAlwaysWritten ==
    [][LogRule /\ ((Did("disable") /\ enabled) => Grew)]_vars

\* C29, amended: the same rule, and disable outputs the notice 'Logging
\* disabled' before it clears the flag exactly when logging was enabled and
\* the minimum level is INFO or DEBUG; with a minimum level of WARNING or
\* above, output stops without a notice.
C29_NoticeUnderLevelRule ==
    [][LogRule /\ (Did("disable") => (Grew <=> (enabled /\ level <= 1)))]_vars

C29_Witness ==
    /\ lastcall.op = "disable" /\ ~enabled
    /\ Len(written) = 3
    /\ written[3] = Entry(1, "Logging disabled")
    /\ written[2] = Entry(2, "message")

\* The level a name denotes, letter case ignored.
Denoted(name) ==
    CASE name \in {"DEBUG", "debug"} -> 0
      [] name = "Info" -> 1
      [] name = "warning" -> 2
      [] name = "ERROR" -> 3
      [] name = "Critical" -> 4
      [] OTHER -> 0 - 1

\* C30: set_log_level, given a name that is none of DEBUG, INFO, WARNING,
\* ERROR, CRITICAL in any letter case, returns an error and leaves the level
\* of the logger as it was; given one of them, the level of the logger is
\* that level afterwards.
C30_LevelSetOnlyForValidName ==
    (lastcall.op = "set_log_level" /\ lastcall.body.kind = "name")
    => IF Denoted(lastcall.body.name) >= 0
       THEN level = Denoted(lastcall.body.name) /\ lresponse.kind = "level"
       ELSE level = lastcall.before /\ lresponse.kind = "error"

C30_Witness ==
    /\ lastcall.op = "set_log_level"
    /\ lastcall.body = [kind |-> "name", name |-> "verbose"]
    /\ lastcall.before = 3 /\ level = 3
    /\ lresponse = [kind |-> "error", name |-> "VERBOSE"]

====
